---------------------------- MODULE Spec2Model ----------------------------
(***************************************************************************)
(* Model of the Gemini Watermark Tool engine (watermark_engine.cpp):       *)
(* size classification, the three-stage detector, the standard and custom  *)
(* removal / addition operations and process_image.                        *)
(*                                                                         *)
(* Numbers.  Scores (NCC, variance) are fixed point in hundredths          *)
(* (ScoreOne = 1.00); a confidence is fixed point in ten-thousandths       *)
(* (ConfOne = 1.0000), so that 0.50*s + 0.30*g + 0.20*v is the integer      *)
(* 50*s + 30*g + 20*v.  An alpha value is a level a in 0..AlphaDen standing *)
(* for a / AlphaDen.  A pixel sample is an integer in 0..255.              *)
(*                                                                         *)
(* Image content.  Every pixel operation of the engine is per pixel, so    *)
(* the buffer is observed at one sample pixel: probe is its coordinate,    *)
(* pix its channel samples.                                                *)
(***************************************************************************)
EXTENDS Integers, Sequences, FiniteSets, TLC

VARIABLES
    image,        \* the buffer in memory: [cols, rows, channels]
    probe,        \* coordinate of the observed pixel: [x, y]
    pix,          \* samples of the observed pixel (one per channel)
    hist,         \* operations applied to the buffer so far, with the pixel before each
    force_size,   \* std::optional<WatermarkSize>: "None", "Small", "Large"
    region,       \* cv::Rect of a custom operation: [x, y, width, height]
    logo_value,   \* WatermarkEngine::logo_value_
    capture,      \* which reference captures the engine was constructed from
    quant,        \* how a float sample is stored back into an 8-bit sample
    op,           \* the operation that ran last
    threw,        \* whether that operation raised an exception
    wroi,         \* the rectangle of the buffer that operation wrote
    det,          \* DetectionResult of the last detect_watermark
    stages,       \* the detector stages that call computed
    scores,       \* what the OpenCV measurements of that call returned
    request,      \* arguments of the call: process_image's, or which engine entry is used
    proc,         \* ProcessResult of the last process_image
    fx,           \* side effects of the last process_image: [processed, written]
    guided,       \* a guided_detect call: its arguments, position and result
    ctor,         \* construction of an engine: the captures and the maps made of them
    finder,       \* detect_watermark_region: its singleton engine and what it returned
    threads,      \* calls running on one shared engine, one per thread
    cli,          \* a run of the command line over several input items
    racers        \* threads calling detect_watermark_region, and the engines made

\* the variables of the subsystems added to the engine core
ext == << guided, ctor, finder, threads, cli, racers >>

vars == << image, probe, pix, hist, force_size, region, logo_value, capture,
           quant, op, threw, wroi, det, stages, scores, request, proc, fx,
           guided, ctor, finder, threads, cli, racers >>

---------------------------------------------------------------------------
(* Arithmetic helpers *)

Min(a, b) == IF a < b THEN a ELSE b

Max(a, b) == IF a > b THEN a ELSE b

Clamp(v, lo, hi) == IF v < lo THEN lo ELSE IF v > hi THEN hi ELSE v

Abs(v) == IF v < 0 THEN -v ELSE v

ScoreOne == 10 * 10

ConfOne == ScoreOne * ScoreOne

Rect(x, y, w, h) == [x |-> x, y |-> y, width |-> w, height |-> h]

Point(x, y) == [x |-> x, y |-> y]

EmptyRect == Rect(0, 0, 0, 0)

\* cv::Mat::operator()(const Rect&) asserts that the rectangle lies inside the matrix
InsideMat(r, cols, rows) ==
    /\ 0 <= r.x /\ 0 <= r.width /\ r.x + r.width <= cols
    /\ 0 <= r.y /\ 0 <= r.height /\ r.y + r.height <= rows

InRect(p, r) ==
    /\ r.x <= p.x /\ p.x < r.x + r.width
    /\ r.y <= p.y /\ p.y < r.y + r.height

\* cv::Mat::empty()
IsEmpty(img) == img.cols = 0 \/ img.rows = 0

---------------------------------------------------------------------------
(* Size classification and the standard position *)

get_watermark_size_ge(image_width, image_height) ==
    IF image_width >= 1024 /\ image_height >= 1024 THEN "Large" ELSE "Small"

get_watermark_size_or(image_width, image_height) ==
    IF image_width > 1024 \/ image_height > 1024 THEN "Large" ELSE "Small"

get_watermark_size(image_width, image_height) ==
    IF image_width > 1024 /\ image_height > 1024 THEN "Large" ELSE "Small"

get_watermark_config(image_width, image_height) ==
    IF image_width > 1024 /\ image_height > 1024
    THEN [margin_right |-> 64, margin_bottom |-> 64, logo_size |-> 96]
    ELSE [margin_right |-> 32, margin_bottom |-> 32, logo_size |-> 48]

get_position(config, image_width, image_height) ==
    Point(image_width - config.margin_right - config.logo_size,
          image_height - config.margin_bottom - config.logo_size)

\* force_size.value_or(get_watermark_size(image.cols, image.rows))
value_or(force, img) ==
    IF force = "None" THEN get_watermark_size(img.cols, img.rows) ELSE force

removal_config_by_image(size, img) == get_watermark_config(img.cols, img.rows)

\* the position record remove_watermark builds from the size actually used
removal_config(size, img) ==
    IF size = "Small"
    THEN [margin_right |-> 32, margin_bottom |-> 32, logo_size |-> 48]
    ELSE [margin_right |-> 64, margin_bottom |-> 64, logo_size |-> 96]

\* the position record add_watermark builds from the size actually used
addition_config(size, img) ==
    IF size = "Small"
    THEN [margin_right |-> 32, margin_bottom |-> 32, logo_size |-> 48]
    ELSE [margin_right |-> 64, margin_bottom |-> 64, logo_size |-> 96]

\* side length of the alpha map get_alpha_map(size) returns
AlphaSide(size) == IF size = "Small" THEN 48 ELSE 96

---------------------------------------------------------------------------
(* Three-stage detector *)

kSpatialThreshold == 25

kDetectionThreshold == 3500

ZeroResult ==
    [detected |-> FALSE, confidence |-> 0, region |-> EmptyRect, size |-> "Small",
     spatial_score |-> 0, gradient_score |-> 0, variance_score |-> 0]

NoScores == [spatial |-> 0, gradient |-> 0, s_wm |-> 0, s_ref |-> 0]

RoiEmpty_never(x1, y1, x2, y2) == FALSE

RoiEmpty_and(x1, y1, x2, y2) == x1 >= x2 /\ y1 >= y2

RoiEmpty(x1, y1, x2, y2) == x1 >= x2 \/ y1 >= y2

BreakerConfidence_zero(spatial) == 0

\* static_cast<float>(spatial_score * 0.5), in ten-thousandths
BreakerConfidence(spatial) == 50 * spatial

\* std::clamp(1.0 - (s_wm / s_ref), 0.0, 1.0) when s_ref > 5.0, else 0
VarianceScore(s_wm, s_ref) ==
    IF s_ref > 5
    THEN Clamp(ScoreOne - ((ScoreOne * s_wm) \div s_ref), 0, ScoreOne)
    ELSE 0

UseStrip_ge(ref_h) == ref_h >= 8

\* if (ref_h > 8): Stage 3 reads the strip above the region
UseStrip(ref_h) == ref_h > 8

Fusion_swapped(spatial, grad, var) == (30 * spatial) + (50 * grad) + (20 * var)

Fusion(spatial, grad, var) == (50 * spatial) + (30 * grad) + (20 * var)

detect_watermark(img, force, sc) ==
    IF IsEmpty(img)
    THEN [result |-> ZeroResult, stages |-> {}, threw |-> FALSE]
    ELSE
    LET size   == value_or(force, img)
        config == get_watermark_config(img.cols, img.rows)
        pos    == get_position(config, img.cols, img.rows)
        side   == AlphaSide(size)
        r0     == [ZeroResult EXCEPT !.size = size,
                                     !.region = Rect(pos.x, pos.y, side, side)]
        x1     == Max(0, pos.x)
        y1     == Max(0, pos.y)
        x2     == Min(img.cols, pos.x + side)
        y2     == Min(img.rows, pos.y + side)
        image_roi == Rect(x1, y1, x2 - x1, y2 - y1)
        alpha_roi == Rect(x1 - pos.x, y1 - pos.y, x2 - x1, y2 - y1)
        ref_h     == Min(y1, config.logo_size)
        ref_roi   == Rect(x1, y1 - ref_h, x2 - x1, ref_h)
        var_score == IF UseStrip(ref_h) THEN VarianceScore(sc.s_wm, sc.s_ref) ELSE 0
        r1     == [r0 EXCEPT !.spatial_score = sc.spatial]
        conf   == Clamp(Fusion(sc.spatial, sc.gradient, var_score), 0, ConfOne)
    IN  IF RoiEmpty(x1, y1, x2, y2)
        THEN [result |-> r0, stages |-> {}, threw |-> FALSE]
        ELSE IF \/ ~InsideMat(image_roi, img.cols, img.rows)
                \/ ~InsideMat(alpha_roi, side, side)
                \/ image_roi.width = 0 \/ image_roi.height = 0
        THEN [result |-> r0, stages |-> {}, threw |-> TRUE]
        ELSE IF sc.spatial < kSpatialThreshold
        THEN [result |-> [r1 EXCEPT !.confidence = BreakerConfidence(sc.spatial)],
              stages |-> {1}, threw |-> FALSE]
        ELSE IF UseStrip(ref_h) /\ ~InsideMat(ref_roi, img.cols, img.rows)
        THEN [result |-> r1, stages |-> {1, 2}, threw |-> TRUE]
        ELSE [result |-> [r1 EXCEPT !.gradient_score = sc.gradient,
                                    !.variance_score = var_score,
                                    !.confidence = conf,
                                    !.detected = (conf >= kDetectionThreshold)],
              stages |-> IF UseStrip(ref_h) THEN {1, 2, 3} ELSE {1, 2},
              threw |-> FALSE]

---------------------------------------------------------------------------
(* Alpha maps.  An alpha map is named by how it was made: the small or the  *)
(* large precomputed map, or a resampling of the large one.                 *)

AlphaDen == 8

SumFun(f) ==
    LET RECURSIVE go(_)
        go(S) == IF S = {} THEN 0
                 ELSE LET e == CHOOSE e \in S : TRUE IN f[e] + go(S \ {e})
    IN  go(DOMAIN f)

\* Alpha level at (ax, ay) of the map calculate_alpha_map builds from a capture:
\* the capture's sample over 255, a value in [0, 1].
calculate_alpha_map(seed, size, ax, ay) ==
    IF size = "Small"
    THEN (ax + (3 * ay) + seed) % (AlphaDen + 1)
    ELSE ((2 * ax) + ay + seed + 1) % (AlphaDen + 1)

Overlap(lo1, hi1, lo2, hi2) == Max(0, Min(hi1, hi2) - Max(lo1, lo2))

\* cv::resize(alpha_map_large_, Size(tw, th), INTER_AREA) at (x, y), tw, th <= 96:
\* the mean of the source weighted by the overlap with the target pixel's footprint
ResizeArea(seed, tw, th, x, y) ==
    LET is == ((x * 96) \div tw) .. ((((x + 1) * 96) - 1) \div tw)
        js == ((y * 96) \div th) .. ((((y + 1) * 96) - 1) \div th)
        w  == [ij \in is \X js |->
                 Overlap(x * 96, (x + 1) * 96, ij[1] * tw, (ij[1] + 1) * tw)
               * Overlap(y * 96, (y + 1) * 96, ij[2] * th, (ij[2] + 1) * th)
               * calculate_alpha_map(seed, "Large", ij[1], ij[2])]
    IN  SumFun(w) \div (96 * 96)

\* cv::resize(..., INTER_LINEAR) on one axis: the left source index and the weight
\* (over 2 * t) of its right neighbour, for target index x of t
LinearTap(t, x) ==
    LET fxn == (((2 * x) + 1) * 96) - t
        sx  == IF fxn < 0 THEN 0 ELSE fxn \div (2 * t)
    IN  IF fxn < 0 THEN [i |-> 0, w |-> 0]
        ELSE IF sx >= 95 THEN [i |-> 95, w |-> 0]
        ELSE [i |-> sx, w |-> fxn - (sx * 2 * t)]

ResizeLinear(seed, tw, th, x, y) ==
    LET tx == LinearTap(tw, x)
        ty == LinearTap(th, y)
        S(i, j) == calculate_alpha_map(seed, "Large", Min(i, 95), Min(j, 95))
        dx == 2 * tw
        dy == 2 * th
    IN  ( ((dx - tx.w) * (dy - ty.w) * S(tx.i, ty.i))
        + (tx.w * (dy - ty.w) * S(tx.i + 1, ty.i))
        + ((dx - tx.w) * ty.w * S(tx.i, ty.i + 1))
        + (tx.w * ty.w * S(tx.i + 1, ty.i + 1)) ) \div (dx * dy)

NoMap == [kind |-> "none", cols |-> 0, rows |-> 0, seed |-> 0]

get_alpha_map(size, seed) ==
    IF size = "Small"
    THEN [kind |-> "small", cols |-> 48, rows |-> 48, seed |-> seed]
    ELSE [kind |-> "large", cols |-> 96, rows |-> 96, seed |-> seed]

\* cv::resize rejects an empty target size
ResizeThrows(target_width, target_height) == target_width <= 0 \/ target_height <= 0

create_interpolated_alpha(target_width, target_height, seed) ==
    IF target_width = 96 /\ target_height = 96
    THEN [kind |-> "large", cols |-> 96, rows |-> 96, seed |-> seed]
    ELSE IF target_width > 96 \/ target_height > 96
    THEN [kind |-> "linear", cols |-> target_width, rows |-> target_height, seed |-> seed]
    ELSE [kind |-> "area", cols |-> target_width, rows |-> target_height, seed |-> seed]

\* alpha_map.at<float>(ay, ax)
AlphaAt(amap, ax, ay) ==
    CASE amap.kind = "small"  -> calculate_alpha_map(amap.seed, "Small", ax, ay)
      [] amap.kind = "large"  -> calculate_alpha_map(amap.seed, "Large", ax, ay)
      [] amap.kind = "area"   -> ResizeArea(amap.seed, amap.cols, amap.rows, ax, ay)
      [] amap.kind = "linear" -> ResizeLinear(amap.seed, amap.cols, amap.rows, ax, ay)
      [] OTHER -> 0

---------------------------------------------------------------------------
(* Reverse / forward alpha blending (blend_modes.cpp, specification 4.2)    *)

QuantModes == {"round", "trunc"}

\* num / den (num >= 0, den > 0) stored as an integer sample
Quantize(num, den, q) ==
    LET n == num \div den
        r == num % den
    IN  IF q = "trunc" THEN n
        ELSE IF (2 * r > den) \/ (2 * r = den /\ n % 2 = 1) THEN n + 1 ELSE n

\* original = (watermarked - alpha * logo) / (1 - alpha), denominator and result clamped
RemovePixel(w, a, logo, q) ==
    LET num == (w * AlphaDen) - (a * logo)
        den == AlphaDen - a
    IN  IF den = 0 THEN (IF num > 0 THEN 255 ELSE 0)
        ELSE IF num <= 0 THEN 0
        ELSE IF num >= 255 * den THEN 255
        ELSE Quantize(num, den, q)

\* watermarked = alpha * logo + (1 - alpha) * original
AddPixel(o, a, logo, q) ==
    Clamp(Quantize((a * logo) + ((AlphaDen - a) * o), AlphaDen, q), 0, 255)

\* the intersection of the box of amap at pos with the image
BlendRoi(img, amap, pos) ==
    LET x1 == Max(0, pos.x)
        y1 == Max(0, pos.y)
        x2 == Min(img.cols, pos.x + amap.cols)
        y2 == Min(img.rows, pos.y + amap.rows)
    IN  IF x1 >= x2 \/ y1 >= y2 THEN EmptyRect ELSE Rect(x1, y1, x2 - x1, y2 - y1)

remove_watermark_alpha_blend(img, pr, bgr, amap, pos, logo, q) ==
    LET roi == BlendRoi(img, amap, pos)
        a   == AlphaAt(amap, pr.x - pos.x, pr.y - pos.y)
    IN  [roi |-> roi,
         pix |-> IF InRect(pr, roi)
                 THEN [c \in 1..3 |-> RemovePixel(bgr[c], a, logo, q)]
                 ELSE bgr]

add_watermark_alpha_blend(img, pr, bgr, amap, pos, logo, q) ==
    LET roi == BlendRoi(img, amap, pos)
        a   == AlphaAt(amap, pr.x - pos.x, pr.y - pos.y)
    IN  [roi |-> roi,
         pix |-> IF InRect(pr, roi)
                 THEN [c \in 1..3 |-> AddPixel(bgr[c], a, logo, q)]
                 ELSE bgr]

---------------------------------------------------------------------------
(* Engine operations on the buffer.  Each yields the buffer afterwards, the *)
(* rectangle written, the position and alpha map handed to the blend, and   *)
(* whether an exception left the call.                                      *)

\* cv::cvtColor(image, image, COLOR_BGRA2BGR / COLOR_GRAY2BGR) of one pixel
ToBGR(px, channels) ==
    IF channels = 4 THEN << px[1], px[2], px[3] >>
    ELSE IF channels = 1 THEN << px[1], px[1], px[1] >>
    ELSE px

EnsureBGR(img) == [img EXCEPT !.channels = IF @ \in {1, 4} THEN 3 ELSE @]

Outcome(img, px, thrown, roi, pos, amap) ==
    [image |-> img, pix |-> px, threw |-> thrown, roi |-> roi, pos |-> pos,
     amap |-> amap]

\* throw std::runtime_error("Empty image provided")
EmptyImageError(img, px) == Outcome(img, px, TRUE, EmptyRect, Point(0, 0), NoMap)

remove_watermark(img, pr, px, force, logo, seed, q) ==
    IF IsEmpty(img) THEN EmptyImageError(img, px)
    ELSE
    LET size   == value_or(force, img)
        config == removal_config(size, img)
        pos    == get_position(config, img.cols, img.rows)
        amap   == get_alpha_map(size, seed)
        b      == remove_watermark_alpha_blend(EnsureBGR(img), pr,
                      ToBGR(px, img.channels), amap, pos, logo, q)
    IN  Outcome(EnsureBGR(img), b.pix, FALSE, b.roi, pos, amap)

add_watermark(img, pr, px, force, logo, seed, q) ==
    IF IsEmpty(img) THEN EmptyImageError(img, px)
    ELSE
    LET size   == value_or(force, img)
        config == addition_config(size, img)
        pos    == get_position(config, img.cols, img.rows)
        amap   == get_alpha_map(size, seed)
        b      == add_watermark_alpha_blend(EnsureBGR(img), pr,
                      ToBGR(px, img.channels), amap, pos, logo, q)
    IN  Outcome(EnsureBGR(img), b.pix, FALSE, b.roi, pos, amap)

custom_alpha_resampled(rg, seed) ==
    IF rg.width = 96 /\ rg.height = 96
    THEN [kind |-> "large", cols |-> 96, rows |-> 96, seed |-> seed]
    ELSE [kind |-> "area", cols |-> rg.width, rows |-> rg.height, seed |-> seed]

custom_alpha_large_first(rg, seed) ==
    IF rg.width <= 96 /\ rg.height <= 96 /\ rg.width > 0 /\ rg.height > 0
    THEN [kind |-> "large", cols |-> 96, rows |-> 96, seed |-> seed]
    ELSE create_interpolated_alpha(rg.width, rg.height, seed)

\* the alpha map remove_watermark_custom / add_watermark_custom blend with
custom_alpha(rg, seed) ==
    IF rg.width = 48 /\ rg.height = 48
    THEN [kind |-> "small", cols |-> 48, rows |-> 48, seed |-> seed]
    ELSE IF rg.width = 96 /\ rg.height = 96
    THEN [kind |-> "large", cols |-> 96, rows |-> 96, seed |-> seed]
    ELSE create_interpolated_alpha(rg.width, rg.height, seed)

\* whether building that alpha map reaches cv::resize with an empty size
custom_alpha_throws(rg) ==
    /\ ~(rg.width = 48 /\ rg.height = 48)
    /\ ~(rg.width = 96 /\ rg.height = 96)
    /\ ResizeThrows(rg.width, rg.height)

remove_watermark_custom(img, pr, px, rg, logo, seed, q) ==
    IF IsEmpty(img) THEN EmptyImageError(img, px)
    ELSE IF custom_alpha_throws(rg)
    THEN Outcome(EnsureBGR(img), ToBGR(px, img.channels), TRUE, EmptyRect,
                 Point(rg.x, rg.y), NoMap)
    ELSE
    LET amap == custom_alpha(rg, seed)
        pos  == Point(rg.x, rg.y)
        b    == remove_watermark_alpha_blend(EnsureBGR(img), pr,
                    ToBGR(px, img.channels), amap, pos, logo, q)
    IN  Outcome(EnsureBGR(img), b.pix, FALSE, b.roi, pos, amap)

add_watermark_custom(img, pr, px, rg, logo, seed, q) ==
    IF IsEmpty(img) THEN EmptyImageError(img, px)
    ELSE IF custom_alpha_throws(rg)
    THEN Outcome(EnsureBGR(img), ToBGR(px, img.channels), TRUE, EmptyRect,
                 Point(rg.x, rg.y), NoMap)
    ELSE
    LET amap == custom_alpha(rg, seed)
        pos  == Point(rg.x, rg.y)
        b    == add_watermark_alpha_blend(EnsureBGR(img), pr,
                    ToBGR(px, img.channels), amap, pos, logo, q)
    IN  Outcome(EnsureBGR(img), b.pix, FALSE, b.roi, pos, amap)

---------------------------------------------------------------------------
(* The earlier engine: detect_watermark yields a confidence only, and        *)
(* remove_watermark consults it unless the caller passes unsafe.             *)

\* double WatermarkEngine::detect_watermark(image, force_size), in ten-thousandths
detect_watermark_confidence(img, force, sc) ==
    IF IsEmpty(img) THEN [conf |-> 0, threw |-> FALSE]
    ELSE
    LET size   == value_or(force, img)
        config == get_watermark_config(img.cols, img.rows)
        pos    == get_position(config, img.cols, img.rows)
        side   == AlphaSide(size)
        x1     == Max(0, pos.x)
        y1     == Max(0, pos.y)
        x2     == Min(img.cols, pos.x + side)
        y2     == Min(img.rows, pos.y + side)
        ref_h  == Min(y1, config.logo_size)
        var_score == IF UseStrip(ref_h) THEN VarianceScore(sc.s_wm, sc.s_ref) ELSE 0
    IN  IF RoiEmpty(x1, y1, x2, y2) THEN [conf |-> 0, threw |-> FALSE]
        ELSE IF \/ ~InsideMat(Rect(x1, y1, x2 - x1, y2 - y1), img.cols, img.rows)
                \/ ~InsideMat(Rect(x1 - pos.x, y1 - pos.y, x2 - x1, y2 - y1), side, side)
        THEN [conf |-> 0, threw |-> TRUE]
        ELSE IF sc.spatial < 25 THEN [conf |-> 0, threw |-> FALSE]
        ELSE IF UseStrip(ref_h)
                /\ ~InsideMat(Rect(x1, y1 - ref_h, x2 - x1, ref_h), img.cols, img.rows)
        THEN [conf |-> 0, threw |-> TRUE]
        ELSE [conf |-> Clamp(Fusion(sc.spatial, sc.gradient, var_score), 0, ConfOne),
              threw |-> FALSE]

SafeGate_ignored(unsafe, conf) == FALSE

\* if (!unsafe && detect_watermark(image, force_size) < 0.30) return;
SafeGate(unsafe, conf) == ~unsafe /\ conf < 3000

\* remove_watermark(image, force_size, unsafe): the buffer afterwards, the
\* confidence consulted and whether the removal was skipped
remove_watermark_gated(img, pr, px, force, unsafe, sc, logo, seed, q) ==
    IF IsEmpty(img)
    THEN [out |-> EmptyImageError(img, px), conf |-> 0, skipped |-> FALSE]
    ELSE
    LET bgr    == EnsureBGR(img)
        px3    == ToBGR(px, img.channels)
        size   == value_or(force, bgr)
        config == get_watermark_config(bgr.cols, bgr.rows)
        pos    == get_position(config, bgr.cols, bgr.rows)
        amap   == get_alpha_map(size, seed)
        d      == IF unsafe THEN [conf |-> 0, threw |-> FALSE]
                  ELSE detect_watermark_confidence(bgr, force, sc)
        b      == remove_watermark_alpha_blend(bgr, pr, px3, amap, pos, logo, q)
    IN  IF d.threw
        THEN [out |-> Outcome(bgr, px3, TRUE, EmptyRect, pos, amap),
              conf |-> 0, skipped |-> FALSE]
        ELSE IF SafeGate(unsafe, d.conf)
        THEN [out |-> Outcome(bgr, px3, FALSE, EmptyRect, pos, amap),
              conf |-> d.conf, skipped |-> TRUE]
        ELSE [out |-> Outcome(bgr, b.pix, FALSE, b.roi, pos, amap),
              conf |-> d.conf, skipped |-> FALSE]

---------------------------------------------------------------------------
(* process_image *)

NoProc == [success |-> FALSE, skipped |-> FALSE, confidence |-> 0, message |-> ""]

NoFx == [processed |-> FALSE, written |-> FALSE]

SkipGate_or(detection, detection_threshold) ==
    ~detection.detected \/ detection.confidence < detection_threshold

\* if (!detection.detected && detection.confidence < detection_threshold)
SkipGate(detection, detection_threshold) ==
    ~detection.detected /\ detection.confidence < detection_threshold

\* The body of process_image once the image is read: d is what detect_watermark
\* returned (when the gate is on), r what the removal or addition does to the
\* buffer, write_success what cv::imwrite returns.  Yields the ProcessResult, the
\* effects, the buffer after the call and the detection made on the way.
ProcessOutcome(img, px, remove, gate, d, r, detection_threshold, write_success) ==
    IF IsEmpty(img)
    THEN [proc |-> [NoProc EXCEPT !.message = "Failed to load image"],
          fx |-> NoFx, buf |-> [image |-> img, pix |-> px, roi |-> EmptyRect],
          det |-> ZeroResult, stages |-> {}]
    ELSE IF gate /\ d.threw
    THEN [proc |-> [NoProc EXCEPT !.message = "Error",
                                  !.confidence = d.result.confidence],
          fx |-> NoFx, buf |-> [image |-> img, pix |-> px, roi |-> EmptyRect],
          det |-> d.result, stages |-> d.stages]
    ELSE IF gate /\ SkipGate(d.result, detection_threshold)
    THEN [proc |-> [success |-> TRUE, skipped |-> TRUE,
                    confidence |-> d.result.confidence,
                    message |-> "No watermark detected, skipped"],
          fx |-> NoFx, buf |-> [image |-> img, pix |-> px, roi |-> EmptyRect],
          det |-> d.result, stages |-> d.stages]
    ELSE IF r.threw
    THEN [proc |-> [NoProc EXCEPT !.message = "Error",
                                  !.confidence = d.result.confidence],
          fx |-> NoFx, buf |-> [image |-> r.image, pix |-> r.pix, roi |-> r.roi],
          det |-> d.result, stages |-> d.stages]
    ELSE IF ~write_success
    THEN [proc |-> [NoProc EXCEPT !.message = "Failed to write image",
                                  !.confidence = d.result.confidence],
          fx |-> [processed |-> TRUE, written |-> FALSE],
          buf |-> [image |-> r.image, pix |-> r.pix, roi |-> r.roi],
          det |-> d.result, stages |-> d.stages]
    ELSE [proc |-> [success |-> TRUE, skipped |-> FALSE,
                    confidence |-> d.result.confidence,
                    message |-> IF remove THEN "Watermark removed"
                                ELSE "Watermark added"],
          fx |-> [processed |-> TRUE, written |-> TRUE],
          buf |-> [image |-> r.image, pix |-> r.pix, roi |-> r.roi],
          det |-> d.result, stages |-> d.stages]

\* img is what cv::imread returned (empty when the load failed)
process_image(img, pr, px, remove, force, use_detection, detection_threshold, sc, write_success, logo, seed, q) ==
    ProcessOutcome(img, px, remove, use_detection /\ remove,
        IF use_detection /\ remove THEN detect_watermark(img, force, sc)
        ELSE [result |-> ZeroResult, stages |-> {}, threw |-> FALSE],
        IF remove THEN remove_watermark(img, pr, px, force, logo, seed, q)
        ELSE add_watermark(img, pr, px, force, logo, seed, q),
        detection_threshold, write_success)

---------------------------------------------------------------------------
(* Guided multi-scale detection *)

kReferenceSize == 96

kCoarseScaleStep == 8

kTopK == 5

kFineScaleStep == 2

kFineScaleRange == 10

\* GuidedDetectionResult result{}
NoGuidedResult ==
    [found |-> FALSE, confidence |-> 0, raw_ncc |-> 0, match_rect |-> EmptyRect,
     detected_size |-> 0, scales_searched |-> 0, total_scales |-> 0,
     was_cancelled |-> FALSE]

\* Candidate{cv::Point(0, 0), 0, -1.0, -1.0}; adjusted scores are kept as the
\* order-preserving key sign(a) * a * a * kReferenceSize of the score a, in
\* hundredths, so that every comparison of two scores is exact
NoBest ==
    [position |-> Point(0, 0), scale |-> 0, raw_score |-> -ScoreOne,
     adjusted_score |-> -(ScoreOne * ScoreOne * kReferenceSize)]

NoGuided ==
    [pc |-> "idle", search_rect |-> EmptyRect, min_size |-> 0, max_size |-> 0,
     scene |-> "none", cancel_flag |-> "null", preset |-> FALSE,
     search |-> EmptyRect, coarse_scales |-> << >>, i |-> 0,
     coarse_candidates |-> << >>, fine |-> {}, matches |-> 0, best |-> NoBest,
     result |-> NoGuidedResult]

\* cv::Rect operator&
RectAnd(a, b) ==
    LET x1 == Max(a.x, b.x)
        y1 == Max(a.y, b.y)
        w  == Min(a.x + a.width, b.x + b.width) - x1
        h  == Min(a.y + a.height, b.y + b.height) - y1
    IN  IF w <= 0 \/ h <= 0 THEN EmptyRect ELSE Rect(x1, y1, w, h)

SearchTooSmall(r) == r.width < 8 \/ r.height < 8

ClampSearch_identity(search_rect, img) == search_rect

\* search_rect & cv::Rect(0, 0, image.cols, image.rows)
ClampSearch(search_rect, img) == RectAnd(search_rect, Rect(0, 0, img.cols, img.rows))

ClampMin(min_size) == Max(min_size, 16)

ClampMax(max_size, search) == Min(max_size, Min(search.width, search.height))

\* std::sort of a set of distinct integers, ascending
SortInts(S) ==
    LET RECURSIVE go(_)
        go(T) == IF T = {} THEN << >>
                 ELSE LET m == CHOOSE m \in T : \A t \in T : m <= t
                      IN  << m >> \o go(T \ {m})
    IN  go(S)

CoarseScales_stepped(lo, hi) ==
    SortInts({ t \in lo..hi : (t - lo) % kCoarseScaleStep = 0 })

\* the scale list of the coarse phase
CoarseScales(lo, hi) ==
    LET base  == { t \in lo..hi : (t - lo) % kCoarseScaleStep = 0 }
        extra == { t \in {48, 96} : lo <= t /\ t <= hi
                                    /\ \A b \in base : Abs(b - t) > 2 }
    IN  SortInts(base \cup extra)

size_adjusted_score_raw(raw_ncc, scale) ==
    (IF raw_ncc < 0 THEN -1 ELSE 1) * raw_ncc * raw_ncc * kReferenceSize

\* raw_ncc * min(sqrt(scale / kReferenceSize), 1.0), as its order-preserving key
size_adjusted_score(raw_ncc, scale) ==
    (IF raw_ncc < 0 THEN -1 ELSE 1) * raw_ncc * raw_ncc * Min(scale, kReferenceSize)

\* the key of the score 0.08
AdjFloor == 8 * 8 * kReferenceSize

CancelRequested_never(flag) == FALSE

CancelRequested_armed(flag) == flag # "null"

\* cancel_flag && cancel_flag->load(std::memory_order_relaxed)
CancelRequested(flag) == flag = "set"

\* what cv::matchTemplate / cv::minMaxLoc return for the template of side t on
\* the search region: the best raw NCC (hundredths) of a kind of picture
Ncc(scene, t) ==
    CASE scene = "none"     -> 5
      [] scene = "large"    -> IF t >= 88 THEN 30 ELSE IF t <= 24 THEN 58 ELSE 20
      [] scene = "small"    -> Max(10, 90 - (4 * Abs(t - 48)))
      [] scene = "flat"     -> 40
      [] scene = "negative" -> -30
      [] scene = "spike"    -> IF t = 48 THEN 90 ELSE 5
      [] OTHER -> 0

\* and the location of that best match inside the search region
Loc(search, t) == Point((search.width - t) \div 2, search.height - t)

MakeCandidate(scene, search, t) ==
    [position |-> Loc(search, t), scale |-> t, raw_score |-> Ncc(scene, t),
     adjusted_score |-> size_adjusted_score(Ncc(scene, t), t)]

\* std::sort by adjusted_score, descending: every order of the candidates S that
\* is sorted (equal scores may come out in any order)
SortedOrders(S) ==
    LET RECURSIVE go(_)
        go(T) == IF T = {} THEN { << >> }
                 ELSE UNION { { << m >> \o rest : rest \in go(T \ {m}) } :
                              m \in { c \in T : \A d \in T :
                                        c.adjusted_score >= d.adjusted_score } }
    IN  go(S)

Range(f) == { f[k] : k \in DOMAIN f }

TopKInsert_noreplace(cands, c) ==
    IF Len(cands) < kTopK THEN Range(cands) \cup {c} ELSE Range(cands)

\* the candidates kept after candidate c passed the floor: the list before sorting
TopKInsert(cands, c) ==
    IF Len(cands) < kTopK THEN Range(cands) \cup {c}
    ELSE IF c.adjusted_score > cands[Len(cands)].adjusted_score
    THEN Range(SubSeq(cands, 1, Len(cands) - 1)) \cup {c}
    ELSE Range(cands)

FineScales_unbounded(lo, hi, search, scale) ==
    LET scale_lo == scale - kFineScaleRange
        scale_hi == scale + kFineScaleRange
    IN  { t \in scale_lo..scale_hi :
            /\ (t - scale_lo) % kFineScaleStep = 0
            /\ ~(t > search.width \/ t > search.height) }

\* the scales the fine phase matches around one coarse candidate
FineScales(lo, hi, search, scale) ==
    LET scale_lo == Max(lo, scale - kFineScaleRange)
        scale_hi == Min(hi, scale + kFineScaleRange)
    IN  { t \in scale_lo..scale_hi :
            /\ (t - scale_lo) % kFineScaleStep = 0
            /\ ~(t > search.width \/ t > search.height) }

FineBest_last(best, scene, search, ts) ==
    LET RECURSIVE go(_, _)
        go(b, q) == IF q = << >> THEN b
                    ELSE go(MakeCandidate(scene, search, Head(q)), Tail(q))
    IN  go(best, SortInts(ts))

\* best after the fine scales ts were matched in ascending order
FineBest(best, scene, search, ts) ==
    LET RECURSIVE go(_, _)
        go(b, q) == IF q = << >> THEN b
                    ELSE LET c == MakeCandidate(scene, search, Head(q))
                         IN  go(IF c.adjusted_score > b.adjusted_score THEN c ELSE b,
                                Tail(q))
    IN  go(best, SortInts(ts))

---------------------------------------------------------------------------
(* Construction: init_alpha_maps brings both captures to their exact size. *)
(* A capture is its size and a seed of its content; a resampled capture is *)
(* observed at one pixel.                                                  *)

\* sample (i, j) of a decoded capture
Sample(seed, i, j) == ((37 * i) + (91 * j) + (seed * i * j)) % 256

\* cv::resize on one axis, source length n, target length t, target index x:
\* the source indices used and their weights, which sum to den.
\* INTER_AREA when shrinking on both axes: the overlap of the footprints
AreaTaps(n, t, x) ==
    [den |-> n,
     w   |-> [i \in ((x * n) \div t) .. ((((x + 1) * n) - 1) \div t) |->
                Overlap(x * n, (x + 1) * n, i * t, (i + 1) * t)]]

\* INTER_AREA otherwise: two neighbours, the right one weighted by the
\* fractional part of (x + 1) - (sx + 1) * t / n
AreaModeTaps(n, t, x) ==
    LET sx == (x * n) \div t
        f  == ((x + 1) * n) - ((sx + 1) * t)
        fw == IF f <= 0 THEN 0 ELSE f % n
    IN  IF sx >= n - 1 THEN [den |-> n, w |-> [i \in {n - 1} |-> n]]
        ELSE [den |-> n, w |-> [i \in {sx, sx + 1} |-> IF i = sx THEN n - fw ELSE fw]]

\* INTER_LINEAR: two neighbours around (x + 1/2) * n / t - 1/2
LinearTaps(n, t, x) ==
    LET fxn == (((2 * x) + 1) * n) - t
        sx  == fxn \div (2 * t)
    IN  IF fxn < 0 THEN [den |-> 2 * t, w |-> [i \in {0} |-> 2 * t]]
        ELSE IF sx >= n - 1 THEN [den |-> 2 * t, w |-> [i \in {n - 1} |-> 2 * t]]
        ELSE [den |-> 2 * t,
              w   |-> [i \in {sx, sx + 1} |->
                         IF i = sx THEN (2 * t) - (fxn - (sx * 2 * t))
                         ELSE fxn - (sx * 2 * t)]]

\* the resampled 8-bit sample: the weighted mean over both axes, rounded
Resample(seed, tx, ty) ==
    LET num == SumFun([ij \in (DOMAIN tx.w) \X (DOMAIN ty.w) |->
                         tx.w[ij[1]] * ty.w[ij[2]] * Sample(seed, ij[1], ij[2])])
        den == tx.den * ty.den
    IN  ((2 * num) + den) \div (2 * den)

InterLinear(cap, side, seed, x, y) ==
    Resample(seed, LinearTaps(cap.cols, side, x), LinearTaps(cap.rows, side, y))

\* cv::resize(capture, Size(side, side), 0, 0, cv::INTER_AREA) at (x, y)
InterArea(cap, side, seed, x, y) ==
    IF cap.cols >= side /\ cap.rows >= side
    THEN Resample(seed, AreaTaps(cap.cols, side, x), AreaTaps(cap.rows, side, y))
    ELSE Resample(seed, AreaModeTaps(cap.cols, side, x), AreaModeTaps(cap.rows, side, y))

\* one capture of init_alpha_maps: resized if its size is not side x side
init_alpha_maps(cap, side, seed, x, y) ==
    IF cap.cols # side \/ cap.rows # side
    THEN [cols |-> side, rows |-> side, resized |-> TRUE,
          value |-> InterArea(cap, side, seed, x, y)]
    ELSE [cols |-> cap.cols, rows |-> cap.rows, resized |-> FALSE,
          value |-> Sample(seed, x, y)]

NoCapture == [cols |-> 0, rows |-> 0]

NoResized == [cols |-> 0, rows |-> 0, resized |-> FALSE, value |-> 0]

NoCtor ==
    [pc |-> "none", bg_small |-> NoCapture, bg_large |-> NoCapture, seed |-> 0,
     at |-> Point(0, 0), small |-> NoResized, large |-> NoResized]

---------------------------------------------------------------------------
(* detect_watermark_region, calls from several threads, and the command line *)

NoFinder == [pc |-> "none", g_detection_engine |-> FALSE, has_value |-> FALSE]

\* what detect_watermark_region hands back: std::nullopt, or the result of
\* detect_watermark on the singleton engine
detect_watermark_region(img, sc) ==
    IF IsEmpty(img)
    THEN [has_value |-> FALSE, result |-> ZeroResult, stages |-> {}, threw |-> FALSE]
    ELSE LET d == detect_watermark(img, "None", sc)
         IN  [has_value |-> ~d.threw, result |-> d.result, stages |-> d.stages,
              threw |-> d.threw]

MaxThreads == 2

Threads == 1..MaxThreads

NoThreads == [built |-> [capture |-> 0, logo_value |-> 0], calls |-> << >>]

NoOut ==
    [blend |-> Outcome([cols |-> 0, rows |-> 0, channels |-> 3], << 0, 0, 0 >>, FALSE,
                       EmptyRect, Point(0, 0), NoMap),
     det |-> ZeroResult, template |-> 0]

\* the members alpha_map_small_, alpha_map_large_ (by their capture) and
\* logo_value_ after a public operation of that kind
MembersAfter_cached(kind, members) ==
    IF kind \in {"remove_watermark_custom", "add_watermark_custom"}
    THEN [members EXCEPT !.capture = 4 - @]
    ELSE members

MembersAfter(kind, members) == members

\* a custom operation blends a map of its own unless the region is 48x48 or 96x96
OwnAlpha(c) ==
    /\ c.kind \in {"remove_watermark_custom", "add_watermark_custom"}
    /\ ~(c.region.width = 48 /\ c.region.height = 48)
    /\ ~(c.region.width = 96 /\ c.region.height = 96)

\* the result of call c that reads logo_value_ = logo and maps of capture seed
\* at its end, and built its own alpha map from capture snap
RunCall(c, logo, seed, snap, q) ==
    CASE c.kind = "remove_watermark" ->
           [NoOut EXCEPT !.blend = remove_watermark(c.image, c.probe, c.pix, c.force,
                                                    logo, seed, q)]
      [] c.kind = "add_watermark" ->
           [NoOut EXCEPT !.blend = add_watermark(c.image, c.probe, c.pix, c.force,
                                                 logo, seed, q)]
      [] c.kind = "remove_watermark_custom" ->
           [NoOut EXCEPT !.blend = remove_watermark_custom(c.image, c.probe, c.pix,
                                       c.region, logo,
                                       IF OwnAlpha(c) THEN snap ELSE seed, q)]
      [] c.kind = "add_watermark_custom" ->
           [NoOut EXCEPT !.blend = add_watermark_custom(c.image, c.probe, c.pix,
                                       c.region, logo,
                                       IF OwnAlpha(c) THEN snap ELSE seed, q)]
      [] c.kind = "detect_watermark" ->
           [NoOut EXCEPT !.det = detect_watermark(c.image, c.force, c.scores).result,
                         !.template = seed]
      [] OTHER -> [NoOut EXCEPT !.template = seed]

MaxItems == 3

\* calls of detect_watermark_region made by one thread
MaxCalls == 2

\* std::unique_ptr<WatermarkEngine> g_detection_engine: 0 is the null pointer,
\* an engine is the number of its construction; live are the engines that were
\* constructed and not destroyed
NoRacers == [g_detection_engine |-> 0, built |-> 0, live |-> {}, t |-> << >>]

\* one thread before its first call
NoRacer(empty) ==
    [pc |-> "idle", empty |-> empty, calls |-> 0, tmp |-> 0, e |-> 0,
     dangling |-> FALSE]

NoCli ==
    [pc |-> "none", mode |-> "none", items |-> << >>, i |-> 0, success |-> 0,
     fail |-> 0, exit_code |-> 0, counted |-> << >>]

\* process_single: one more success or one more failure
process_single(c, k, ok) ==
    [c EXCEPT !.success = IF ok THEN @ + 1 ELSE @,
              !.fail = IF ok THEN @ ELSE @ + 1,
              !.counted[k] = @ + 1]

\* return (result.fail > 0) ? 1 : 0
ExitCode(fail) == IF fail > 0 THEN 1 ELSE 0

\* no guided_detect call and nothing else outside the engine core is in progress
ExtIdle ==
    /\ guided = NoGuided /\ ctor = NoCtor
    /\ finder = NoFinder /\ threads = NoThreads /\ cli = NoCli
    /\ racers = NoRacers

---------------------------------------------------------------------------
(* Inputs *)

MaxOps == 2

ForceOpts == {"None", "Small", "Large"}

Image(c, r, ch) == [cols |-> c, rows |-> r, channels |-> ch]

Call(entry, remove, use_detection, detection_threshold, write_success) ==
    [entry |-> entry, remove |-> remove, use_detection |-> use_detection,
     detection_threshold |-> detection_threshold, write_success |-> write_success]

HistEntry(name, before, channels, pos, amap) ==
    [op |-> name, before |-> before, channels |-> channels, pos |-> pos,
     amap |-> amap]

\* images handed to the detector and to process_image (0 x 0: nothing was loaded)
DetImages ==
    { Image(0, 0, 3), Image(30, 100, 3), Image(40, 45, 3), Image(100, 88, 3),
      Image(100, 89, 3), Image(200, 150, 3), Image(1024, 1024, 3),
      Image(1025, 1025, 3), Image(2000, 500, 3), Image(1025, 2000, 3),
      Image(1024, 2000, 3) }

\* what matchTemplate / minMaxLoc and meanStdDev can return
SpatialVals == {-100, -40, 0, 24, 25, 70, 100}

GradVals == {-100, 0, 100}

StdPairs == { << 0, 5 >>, << 0, 10 >>, << 5, 10 >>, << 30, 10 >> }

ScoreInputs ==
    { [spatial |-> s, gradient |-> g, s_wm |-> p[1], s_ref |-> p[2]] :
        s \in SpatialVals, g \in GradVals, p \in StdPairs }

Thresholds == {0, 2500, 3500, 5000, ConfOne}

ProcessCalls ==
    { Call("process_image", TRUE, TRUE, t, w) : t \in Thresholds, w \in BOOLEAN }
    \cup { Call("process_image", r, u, 2500, w) : r \in BOOLEAN, u \in BOOLEAN,
                                                  w \in BOOLEAN }

DetectCall == Call("detect_watermark", FALSE, FALSE, 0, FALSE)

UsesDetector(c) ==
    c.entry = "detect_watermark" \/ (c.remove /\ c.use_detection)

DetProbe(img) ==
    IF IsEmpty(img) THEN Point(0, 0)
    ELSE Point(Max(0, img.cols - 40), Max(0, img.rows - 40))

---------------------------------------------------------------------------
(* Specification of the detector and of process_image: the arguments of one *)
(* call are drawn, then the call runs.                                      *)

Init ==
    \E img \in DetImages, f \in ForceOpts, c \in ProcessCalls \cup {DetectCall} :
      \E sc \in (IF UsesDetector(c) THEN ScoreInputs ELSE {NoScores}) :
        /\ image = img
        /\ probe = DetProbe(img)
        /\ pix = << 200, 100, 50 >>
        /\ hist = << >>
        /\ force_size = f
        /\ region = EmptyRect
        /\ logo_value = 255
        /\ capture = 0
        /\ quant = "round"
        /\ op = "none"
        /\ threw = FALSE
        /\ wroi = EmptyRect
        /\ det = ZeroResult
        /\ stages = {}
        /\ scores = sc
        /\ request = c
        /\ proc = NoProc
        /\ fx = NoFx
        /\ ExtIdle

DetectWatermark ==
    /\ op = "none"
    /\ request.entry = "detect_watermark"
    /\ \E d \in {detect_watermark(image, force_size, scores)} :
           /\ det' = d.result
           /\ stages' = d.stages
           /\ threw' = d.threw
    /\ op' = "detect_watermark"
    /\ UNCHANGED << image, probe, pix, hist, force_size, region, logo_value,
                    capture, quant, wroi, scores, request, proc, fx >>
    /\ UNCHANGED ext

ProcessImage ==
    /\ op = "none"
    /\ request.entry = "process_image"
    /\ \E p \in {process_image(image, probe, pix, request.remove, force_size,
                    request.use_detection, request.detection_threshold, scores,
                    request.write_success, logo_value, capture, quant)} :
           /\ proc' = p.proc
           /\ fx' = p.fx
           /\ image' = p.buf.image
           /\ pix' = p.buf.pix
           /\ wroi' = p.buf.roi
           /\ det' = p.det
           /\ stages' = p.stages
    /\ hist' = Append(hist, HistEntry("process_image", pix, image.channels,
                                      Point(0, 0), NoMap))
    /\ threw' = FALSE
    /\ op' = "process_image"
    /\ UNCHANGED << probe, force_size, region, logo_value, capture, quant,
                    scores, request >>
    /\ UNCHANGED ext

Next == DetectWatermark \/ ProcessImage

Spec == Init /\ [][Next]_vars

---------------------------------------------------------------------------
(* Specification of the blending operations: an image, an engine and one    *)
(* kind of request are drawn, then up to MaxOps operations run on the       *)
(* buffer in place.                                                         *)

BlendImages ==
    { Image(0, 0, 3), Image(10, 0, 4), Image(30, 30, 3), Image(60, 70, 3), Image(200, 150, 3),
      Image(200, 150, 1), Image(200, 150, 4), Image(1025, 1030, 3) }

SmallPos(img) == Point(img.cols - 80, img.rows - 80)

LargePos(img) == Point(img.cols - 160, img.rows - 160)

Probes(img) ==
    IF IsEmpty(img) THEN {Point(0, 0)}
    ELSE LET ps == SmallPos(img)
         IN  { p \in { Point(ps.x, ps.y), Point(ps.x + 3, ps.y),
                       Point(ps.x + 6, ps.y), Point(ps.x + 47, ps.y + 47),
                       Point(ps.x + 48, ps.y + 47), Point(ps.x - 1, ps.y),
                       Point(0, 0), Point(img.cols - 1, img.rows - 1) } :
                 InRect(p, Rect(0, 0, img.cols, img.rows)) }

PixelVals == {0, 1, 2, 128, 255}

Content(v, channels) ==
    IF channels = 1 THEN << v >>
    ELSE IF channels = 4 THEN << v, (v + 85) % 256, 255 - v, 77 >>
    ELSE << v, (v + 85) % 256, 255 - v >>

LogoVals == {255, 128}

\* engines constructed from different reference captures
CaptureSeeds == {0, 4}

Regions(img) ==
    LET ps == SmallPos(img)
        pl == LargePos(img)
    IN  { Rect(ps.x, ps.y, 48, 48), Rect(pl.x, pl.y, 96, 96),
          Rect(ps.x, ps.y, 24, 24), Rect(ps.x - 10, ps.y - 10, 120, 60),
          Rect(ps.x + 2, ps.y, 40, 30), Rect(img.cols + 5, img.rows + 5, 48, 48),
          Rect(ps.x, ps.y, 0, 10) }

StandardCall == Call("standard", FALSE, FALSE, 0, FALSE)

CustomCall == Call("custom", FALSE, FALSE, 0, FALSE)

InitBlend ==
    \E img \in BlendImages, v \in PixelVals, l \in LogoVals, q \in QuantModes :
      \E pr \in Probes(img), cs \in CaptureSeeds :
        /\ image = img
        /\ probe = pr
        /\ pix = Content(v, img.channels)
        /\ hist = << >>
        /\ \/ /\ request = StandardCall
              /\ force_size \in ForceOpts
              /\ region = EmptyRect
           \/ /\ request = CustomCall
              /\ force_size = "None"
              /\ region \in Regions(img)
        /\ logo_value = l
        /\ capture = cs
        /\ quant = q
        /\ op = "none"
        /\ threw = FALSE
        /\ wroi = EmptyRect
        /\ det = ZeroResult
        /\ stages = {}
        /\ scores = NoScores
        /\ proc = NoProc
        /\ fx = NoFx
        /\ ExtIdle

Apply(name, r) ==
    /\ image' = r.image
    /\ pix' = r.pix
    /\ threw' = r.threw
    /\ wroi' = r.roi
    /\ op' = name
    /\ hist' = Append(hist, HistEntry(name, pix, image.channels, r.pos, r.amap))
    /\ UNCHANGED << probe, force_size, region, logo_value, capture, quant, det,
                    stages, scores, request, proc, fx >>
    /\ UNCHANGED ext

RemoveWatermark ==
    /\ request.entry = "standard"
    /\ Len(hist) < MaxOps
    /\ Apply("remove_watermark",
             remove_watermark(image, probe, pix, force_size, logo_value, capture,
                              quant))

AddWatermark ==
    /\ request.entry = "standard"
    /\ Len(hist) < MaxOps
    /\ Apply("add_watermark",
             add_watermark(image, probe, pix, force_size, logo_value, capture,
                           quant))

RemoveWatermarkCustom ==
    /\ request.entry = "custom"
    /\ Len(hist) < MaxOps
    /\ Apply("remove_watermark_custom",
             remove_watermark_custom(image, probe, pix, region, logo_value,
                                     capture, quant))

AddWatermarkCustom ==
    /\ request.entry = "custom"
    /\ Len(hist) < MaxOps
    /\ Apply("add_watermark_custom",
             add_watermark_custom(image, probe, pix, region, logo_value, capture,
                                  quant))

NextBlend ==
    RemoveWatermark \/ AddWatermark \/ RemoveWatermarkCustom \/ AddWatermarkCustom

SpecBlend == InitBlend /\ [][NextBlend]_vars

---------------------------------------------------------------------------
(* Specification of guided_detect: the arguments of one call are drawn, the *)
(* call runs scale by scale, and another thread may set the cancellation    *)
(* flag at any moment.                                                      *)

\* the engine core is not in use
CoreIdle(entry) ==
    /\ probe = Point(0, 0)
    /\ pix = << 0, 0, 0 >>
    /\ hist = << >>
    /\ force_size = "None"
    /\ region = EmptyRect
    /\ logo_value = 255
    /\ capture = 0
    /\ quant = "round"
    /\ op = "none"
    /\ threw = FALSE
    /\ wroi = EmptyRect
    /\ det = ZeroResult
    /\ stages = {}
    /\ scores = NoScores
    /\ request = Call(entry, FALSE, FALSE, 0, FALSE)
    /\ proc = NoProc
    /\ fx = NoFx

GuidedImages == { Image(0, 0, 3), Image(64, 64, 3), Image(120, 120, 3) }

SearchRects(img) ==
    { Rect(0, 0, img.cols, img.rows), Rect(-10, -10, 50, 50), Rect(0, 0, 4, 20),
      Rect(img.cols - 4, 0, 20, 20) }

SizeRanges == { << 16, 200 >>, << 8, 40 >>, << 50, 40 >>, << 90, 200 >>,
                << 20, 200 >>, << 45, 200 >> }

Scenes == {"none", "large", "small", "flat", "negative", "spike"}

CancelFlags == {"null", "clear", "set"}

InitGuided ==
    \E img \in GuidedImages, mm \in SizeRanges, sc \in Scenes, cf \in CancelFlags :
      \E sr \in SearchRects(img) :
        /\ image = img
        /\ CoreIdle("guided_detect")
        /\ ctor = NoCtor /\ finder = NoFinder /\ threads = NoThreads /\ cli = NoCli
        /\ racers = NoRacers
        /\ guided = [NoGuided EXCEPT !.pc = "call", !.search_rect = sr,
                                     !.min_size = mm[1], !.max_size = mm[2],
                                     !.scene = sc, !.cancel_flag = cf,
                                     !.preset = (cf = "set")]

GuidedFrame ==
    UNCHANGED << image, probe, pix, hist, force_size, region, logo_value, capture,
                 quant, wroi, det, stages, scores, request, proc, fx, ctor,
                 finder, threads, cli, racers >>

\* entry of guided_detect up to the scale list
GuidedDetect ==
    /\ guided.pc = "call"
    /\ op' = "guided_detect"
    /\ \E search \in {ClampSearch(guided.search_rect, image)} :
       \E lo \in {ClampMin(guided.min_size)} :
       \E hi \in {ClampMax(guided.max_size, search)} :
         IF \/ IsEmpty(image) \/ SearchTooSmall(guided.search_rect)
            \/ SearchTooSmall(search) \/ lo > hi
         THEN /\ guided' = [guided EXCEPT !.pc = "done"]
              /\ threw' = FALSE
         ELSE IF ~InsideMat(search, image.cols, image.rows)
         THEN /\ guided' = [guided EXCEPT !.pc = "done", !.search = search]
              /\ threw' = TRUE
         ELSE /\ guided' = [guided EXCEPT
                    !.pc = "coarse", !.search = search, !.min_size = lo,
                    !.max_size = hi, !.coarse_scales = CoarseScales(lo, hi),
                    !.i = 1,
                    !.result.total_scales = Len(CoarseScales(lo, hi))]
              /\ threw' = FALSE
    /\ GuidedFrame

\* one iteration of the coarse loop
CoarseScale ==
    /\ guided.pc = "coarse"
    /\ guided.i <= Len(guided.coarse_scales)
    /\ \E scale \in {guided.coarse_scales[guided.i]} :
       \E c \in {MakeCandidate(guided.scene, guided.search, scale)} :
         IF CancelRequested(guided.cancel_flag)
         THEN guided' = [guided EXCEPT !.result.was_cancelled = TRUE,
                                       !.i = Len(guided.coarse_scales) + 1]
         ELSE IF scale > guided.search.width \/ scale > guided.search.height
         THEN guided' = [guided EXCEPT !.result.scales_searched = @ + 1,
                                       !.i = @ + 1]
         ELSE IF c.adjusted_score > AdjFloor
         THEN \E sorted \in SortedOrders(TopKInsert(guided.coarse_candidates, c)) :
                guided' = [guided EXCEPT !.result.scales_searched = @ + 1,
                                         !.matches = @ + 1, !.i = @ + 1,
                                         !.coarse_candidates = sorted]
         ELSE guided' = [guided EXCEPT !.result.scales_searched = @ + 1,
                                       !.matches = @ + 1, !.i = @ + 1]
    /\ UNCHANGED << op, threw >>
    /\ GuidedFrame

\* after the coarse loop
CoarseDone ==
    /\ guided.pc = "coarse"
    /\ guided.i > Len(guided.coarse_scales)
    /\ guided' = IF guided.coarse_candidates = << >>
                 THEN [guided EXCEPT !.pc = "done"]
                 ELSE [guided EXCEPT !.pc = "fine", !.i = 1]
    /\ UNCHANGED << op, threw >>
    /\ GuidedFrame

\* one iteration of the fine loop: the scales around one coarse candidate
FineCandidate ==
    /\ guided.pc = "fine"
    /\ guided.i <= Len(guided.coarse_candidates)
    /\ \E ts \in {FineScales(guided.min_size, guided.max_size, guided.search,
                             guided.coarse_candidates[guided.i].scale)} :
         IF CancelRequested(guided.cancel_flag)
         THEN guided' = [guided EXCEPT !.result.was_cancelled = TRUE,
                                       !.i = Len(guided.coarse_candidates) + 1]
         ELSE guided' = [guided EXCEPT
                    !.best = FineBest(@, guided.scene, guided.search, ts),
                    !.fine = @ \cup ts,
                    !.matches = @ + Cardinality(ts),
                    !.i = @ + 1]
    /\ UNCHANGED << op, threw >>
    /\ GuidedFrame

\* after the fine loop
GuidedReturn ==
    /\ guided.pc = "fine"
    /\ guided.i > Len(guided.coarse_candidates)
    /\ guided' =
         IF guided.best.adjusted_score > AdjFloor
         THEN [guided EXCEPT
                 !.pc = "done",
                 !.result.found = TRUE,
                 !.result.confidence = guided.best.adjusted_score,
                 !.result.raw_ncc = guided.best.raw_score,
                 !.result.match_rect =
                     Rect(guided.search.x + guided.best.position.x,
                          guided.search.y + guided.best.position.y,
                          guided.best.scale, guided.best.scale),
                 !.result.detected_size = guided.best.scale]
         ELSE [guided EXCEPT !.pc = "done"]
    /\ UNCHANGED << op, threw >>
    /\ GuidedFrame

\* another thread stores true into the flag while the call runs
SetCancel ==
    /\ guided.pc \in {"call", "coarse", "fine"}
    /\ guided.cancel_flag = "clear"
    /\ guided' = [guided EXCEPT !.cancel_flag = "set"]
    /\ UNCHANGED << op, threw >>
    /\ GuidedFrame

NextGuided ==
    \/ GuidedDetect \/ CoarseScale \/ CoarseDone \/ FineCandidate
    \/ GuidedReturn \/ SetCancel

SpecGuided == InitGuided /\ [][NextGuided]_vars

---------------------------------------------------------------------------
(* Specification of the construction of an engine from two decoded captures *)

SmallCaptures ==
    { [cols |-> 0, rows |-> 0], [cols |-> 48, rows |-> 48], [cols |-> 24, rows |-> 24],
      [cols |-> 96, rows |-> 96], [cols |-> 60, rows |-> 36], [cols |-> 50, rows |-> 50] }

LargeCaptures ==
    { [cols |-> 0, rows |-> 0], [cols |-> 96, rows |-> 96], [cols |-> 48, rows |-> 48],
      [cols |-> 192, rows |-> 192], [cols |-> 120, rows |-> 80] }

InitCtor ==
    \E s \in SmallCaptures, l \in LargeCaptures, sd \in {1, 2},
       p \in { Point(0, 0), Point(1, 0), Point(5, 7), Point(47, 47) } :
        /\ image = Image(0, 0, 3)
        /\ CoreIdle("none")
        /\ guided = NoGuided /\ finder = NoFinder /\ threads = NoThreads /\ cli = NoCli
        /\ racers = NoRacers
        /\ ctor = [NoCtor EXCEPT !.pc = "new", !.bg_small = s, !.bg_large = l,
                                 !.seed = sd, !.at = p]

CtorFrame ==
    UNCHANGED << image, probe, pix, hist, force_size, region, logo_value, capture,
                 quant, op, wroi, det, stages, scores, request, proc, fx, guided,
                 finder, threads, cli, racers >>

\* WatermarkEngine::WatermarkEngine: both captures must decode
Construct ==
    /\ ctor.pc = "new"
    /\ IF IsEmpty(ctor.bg_small) \/ IsEmpty(ctor.bg_large)
       THEN ctor' = [ctor EXCEPT !.pc = "failed"] /\ threw' = TRUE
       ELSE ctor' = [ctor EXCEPT !.pc = "loaded"] /\ threw' = FALSE
    /\ CtorFrame

InitAlphaMaps ==
    /\ ctor.pc = "loaded"
    /\ ctor' = [ctor EXCEPT
                  !.pc = "ready",
                  !.small = init_alpha_maps(ctor.bg_small, 48, ctor.seed,
                                            ctor.at.x, ctor.at.y),
                  !.large = init_alpha_maps(ctor.bg_large, 96, ctor.seed,
                                            ctor.at.x, ctor.at.y)]
    /\ UNCHANGED threw
    /\ CtorFrame

NextCtor == Construct \/ InitAlphaMaps

SpecCtor == InitCtor /\ [][NextCtor]_vars

---------------------------------------------------------------------------
(* Specification of detect_watermark_region: one call on a drawn image       *)

InitRegion ==
    \E img \in DetImages, sc \in ScoreInputs :
        /\ image = img
        /\ probe = Point(0, 0) /\ pix = << 0, 0, 0 >> /\ hist = << >>
        /\ force_size = "None" /\ region = EmptyRect
        /\ logo_value = 255 /\ capture = 0 /\ quant = "round"
        /\ op = "none" /\ threw = FALSE /\ wroi = EmptyRect
        /\ det = ZeroResult /\ stages = {} /\ scores = sc
        /\ request = Call("detect_watermark_region", FALSE, FALSE, 0, FALSE)
        /\ proc = NoProc /\ fx = NoFx
        /\ guided = NoGuided /\ ctor = NoCtor /\ threads = NoThreads /\ cli = NoCli
        /\ racers = NoRacers
        /\ finder = [NoFinder EXCEPT !.pc = "call"]

DetectWatermarkRegion ==
    /\ finder.pc = "call"
    /\ \E r \in {detect_watermark_region(image, scores)} :
           /\ finder' = [pc |-> "done",
                         g_detection_engine |-> ~IsEmpty(image),
                         has_value |-> r.has_value]
           /\ det' = r.result
           /\ stages' = r.stages
           /\ threw' = r.threw
    /\ op' = "detect_watermark_region"
    /\ UNCHANGED << image, probe, pix, hist, force_size, region, logo_value,
                    capture, quant, wroi, scores, request, proc, fx >>
    /\ UNCHANGED << guided, ctor, threads, cli, racers >>

NextRegion == DetectWatermarkRegion

SpecRegion == InitRegion /\ [][NextRegion]_vars

---------------------------------------------------------------------------
(* Specification of several threads calling one shared engine, each with its *)
(* own buffer: a call starts (checks and converts its buffer, builds its own *)
(* alpha map if it needs one) and later finishes (blends or measures,        *)
(* reading the members).                                                     *)

ThreadCall(kind, img, v, force, rg) ==
    [kind |-> kind, image |-> img, probe |-> Point(123, 73),
     pix |-> Content(v, img.channels), force |-> force, region |-> rg,
     scores |-> [spatial |-> 70, gradient |-> 100, s_wm |-> 0, s_ref |-> 10]]

ThreadCalls ==
    { ThreadCall("remove_watermark", Image(200, 150, 3), 128, "None", EmptyRect),
      ThreadCall("add_watermark", Image(200, 150, 3), 128, "None", EmptyRect),
      ThreadCall("remove_watermark", Image(200, 150, 4), 2, "Large", EmptyRect),
      ThreadCall("remove_watermark", Image(0, 0, 3), 0, "None", EmptyRect),
      ThreadCall("remove_watermark_custom", Image(200, 150, 3), 128, "None",
                 Rect(120, 70, 24, 24)),
      ThreadCall("add_watermark_custom", Image(200, 150, 1), 128, "None",
                 Rect(120, 70, 48, 48)),
      ThreadCall("remove_watermark_custom", Image(200, 150, 3), 255, "None",
                 Rect(40, -10, 96, 96)),
      ThreadCall("detect_watermark", Image(200, 150, 3), 128, "None", EmptyRect),
      ThreadCall("guided_detect", Image(200, 150, 3), 128, "None", EmptyRect) }

InitThreads ==
    \E cs \in [Threads -> ThreadCalls], l \in LogoVals, sd \in CaptureSeeds,
       q \in QuantModes :
        /\ image = Image(0, 0, 3)
        /\ probe = Point(0, 0) /\ pix = << 0, 0, 0 >> /\ hist = << >>
        /\ force_size = "None" /\ region = EmptyRect
        /\ logo_value = l /\ capture = sd /\ quant = q
        /\ op = "none" /\ threw = FALSE /\ wroi = EmptyRect
        /\ det = ZeroResult /\ stages = {} /\ scores = NoScores
        /\ request = Call("none", FALSE, FALSE, 0, FALSE)
        /\ proc = NoProc /\ fx = NoFx
        /\ guided = NoGuided /\ ctor = NoCtor /\ finder = NoFinder /\ cli = NoCli
        /\ racers = NoRacers
        /\ threads = [built |-> [capture |-> sd, logo_value |-> l],
                      calls |-> [t \in Threads |->
                                   [pc |-> "call", call |-> cs[t], buffer |-> cs[t].image,
                                    snap |-> 0, out |-> NoOut]]]

ThreadsFrame ==
    UNCHANGED << image, probe, pix, hist, force_size, region, quant, op, threw,
                 wroi, det, stages, scores, request, proc, fx, guided, ctor,
                 finder, cli, racers >>

ThreadBegin(t) ==
    /\ threads.calls[t].pc = "call"
    /\ threads' = [threads EXCEPT
                     !.calls[t].pc = "entered",
                     !.calls[t].buffer = IF IsEmpty(@) THEN @ ELSE EnsureBGR(@),
                     !.calls[t].snap = capture]
    /\ UNCHANGED << capture, logo_value >>
    /\ ThreadsFrame

ThreadFinish(t) ==
    /\ threads.calls[t].pc = "entered"
    /\ \E o \in {RunCall(threads.calls[t].call, logo_value, capture,
                         threads.calls[t].snap, quant)} :
       \E m \in {MembersAfter(threads.calls[t].call.kind,
                              [capture |-> capture, logo_value |-> logo_value])} :
           /\ threads' = [threads EXCEPT !.calls[t].pc = "done",
                                         !.calls[t].out = o]
           /\ capture' = m.capture
           /\ logo_value' = m.logo_value
    /\ ThreadsFrame

NextThreads == \E t \in Threads : ThreadBegin(t) \/ ThreadFinish(t)

SpecThreads == InitThreads /\ [][NextThreads]_vars

---------------------------------------------------------------------------
(* Specification of the command line: simple mode over its arguments and    *)
(* batch mode over the entries of a directory.  An item is what the file    *)
(* system and process_image make of it.                                     *)

SimpleItems == {"missing", "directory", "ok", "bad", "error"}

BatchItems == {"not_regular", "other_ext", "ok", "bad", "error"}

ItemLists(kinds, least) ==
    UNION { [1..n -> kinds] : n \in least..MaxItems }

InitCli ==
    \E m \in {"simple", "batch"} :
      \E its \in (IF m = "simple" THEN ItemLists(SimpleItems, 1)
                  ELSE ItemLists(BatchItems, 0)) :
        /\ image = Image(0, 0, 3)
        /\ CoreIdle("none")
        /\ guided = NoGuided /\ ctor = NoCtor /\ finder = NoFinder
        /\ threads = NoThreads /\ racers = NoRacers
        /\ cli = [NoCli EXCEPT !.pc = "loop", !.mode = m, !.items = its, !.i = 1,
                               !.counted = [k \in 1..Len(its) |-> 0]]

CliFrame ==
    UNCHANGED << image, probe, pix, hist, force_size, region, logo_value, capture,
                 quant, op, threw, wroi, det, stages, scores, request, proc, fx,
                 guided, ctor, finder, threads, racers >>

\* one iteration of the loop of run_simple_mode
SimpleItem ==
    /\ cli.pc = "loop" /\ cli.mode = "simple" /\ cli.i <= Len(cli.items)
    /\ cli' = LET it == cli.items[cli.i]
                  nx == [cli EXCEPT !.i = @ + 1]
              IN  IF it = "error"
                  THEN [cli EXCEPT !.pc = "exited", !.exit_code = 1]
                  ELSE process_single(nx, cli.i, it = "ok")
    /\ CliFrame

\* one iteration of the directory loop of run
BatchEntry ==
    /\ cli.pc = "loop" /\ cli.mode = "batch" /\ cli.i <= Len(cli.items)
    /\ cli' = LET it == cli.items[cli.i]
                  nx == [cli EXCEPT !.i = @ + 1]
              IN  IF it = "error"
                  THEN [cli EXCEPT !.pc = "exited", !.exit_code = 1]
                  ELSE IF it \in {"not_regular", "other_ext"} THEN nx
                  ELSE process_single(nx, cli.i, it = "ok")
    /\ CliFrame

\* after the loop: result.print() and the exit code
CliReturn ==
    /\ cli.pc = "loop" /\ cli.i > Len(cli.items)
    /\ cli' = [cli EXCEPT !.pc = "exited", !.exit_code = ExitCode(cli.fail)]
    /\ CliFrame

NextCli == SimpleItem \/ BatchEntry \/ CliReturn

SpecCli == InitCli /\ [][NextCli]_vars

---------------------------------------------------------------------------
(* Specification of detect_watermark_region called from several threads:    *)
(* get_detection_engine is taken statement by statement, without any lock   *)

InitRace ==
    \E em \in [Threads -> BOOLEAN] :
        /\ image = Image(0, 0, 3)
        /\ CoreIdle("detect_watermark_region")
        /\ guided = NoGuided /\ ctor = NoCtor /\ finder = NoFinder
        /\ threads = NoThreads /\ cli = NoCli
        /\ racers = [NoRacers EXCEPT !.t = [k \in Threads |-> NoRacer(em[k])]]

RaceFrame ==
    UNCHANGED << image, probe, pix, hist, force_size, region, logo_value, capture,
                 quant, op, threw, wroi, det, stages, scores, request, proc, fx,
                 guided, ctor, finder, threads, cli >>

\* detect_watermark_region is entered: an empty image returns at once
RaceCall(k) ==
    /\ racers.t[k].pc = "idle"
    /\ racers.t[k].calls < MaxCalls
    /\ racers' = [racers EXCEPT !.t[k].calls = @ + 1,
                                !.t[k].pc = IF racers.t[k].empty THEN "idle" ELSE "check"]
    /\ RaceFrame

\* if (!g_detection_engine)
RaceCheck(k) ==
    /\ racers.t[k].pc = "check"
    /\ racers' = [racers EXCEPT !.t[k].pc = IF racers.g_detection_engine = 0
                                            THEN "make" ELSE "deref"]
    /\ RaceFrame

\* std::make_unique<WatermarkEngine>(...)
RaceMake(k) ==
    /\ racers.t[k].pc = "make"
    /\ racers' = [racers EXCEPT !.built = @ + 1,
                                !.live = @ \cup {racers.built + 1},
                                !.t[k].tmp = racers.built + 1,
                                !.t[k].pc = "assign"]
    /\ RaceFrame

\* g_detection_engine = ...: the engine held before is destroyed
RaceAssign(k) ==
    /\ racers.t[k].pc = "assign"
    /\ racers' = [racers EXCEPT !.live = @ \ {racers.g_detection_engine},
                                !.g_detection_engine = racers.t[k].tmp,
                                !.t[k].pc = "deref"]
    /\ RaceFrame

\* return *g_detection_engine
RaceDeref(k) ==
    /\ racers.t[k].pc = "deref"
    /\ racers' = [racers EXCEPT !.t[k].e = racers.g_detection_engine,
                                !.t[k].pc = "detect"]
    /\ RaceFrame

\* engine.detect_watermark(image, std::nullopt) on the engine obtained
RaceDetect(k) ==
    /\ racers.t[k].pc = "detect"
    /\ racers' = [racers EXCEPT
                    !.t[k].dangling = @ \/ racers.t[k].e \notin racers.live,
                    !.t[k].pc = "idle"]
    /\ RaceFrame

NextRace ==
    \E k \in Threads :
        \/ RaceCall(k) \/ RaceCheck(k) \/ RaceMake(k) \/ RaceAssign(k)
        \/ RaceDeref(k) \/ RaceDetect(k)

SpecRace == InitRace /\ [][NextRace]_vars

---------------------------------------------------------------------------
(* Specification of the gated remove_watermark of the earlier engine        *)

GatedImages ==
    { Image(0, 0, 3), Image(200, 150, 3), Image(200, 150, 4), Image(200, 150, 1),
      Image(40, 45, 4) }

InitGated ==
    \E img \in GatedImages, f \in ForceOpts, unsafe \in BOOLEAN, sc \in ScoreInputs :
        /\ image = img
        /\ probe = IF IsEmpty(img) THEN Point(0, 0)
                   ELSE Point(Max(0, img.cols - 77), Max(0, img.rows - 77))
        /\ pix = Content(128, img.channels)
        /\ hist = << >>
        /\ force_size = f /\ region = EmptyRect
        /\ logo_value = 255 /\ capture = 0 /\ quant = "round"
        /\ op = "none" /\ threw = FALSE /\ wroi = EmptyRect
        /\ det = ZeroResult /\ stages = {} /\ scores = sc
        /\ request = Call("remove_watermark_gated", TRUE, ~unsafe, 3000, FALSE)
        /\ proc = NoProc /\ fx = NoFx
        /\ ExtIdle

RemoveWatermarkGated ==
    /\ op = "none"
    /\ request.entry = "remove_watermark_gated"
    /\ \E r \in {remove_watermark_gated(image, probe, pix, force_size,
                     ~request.use_detection, scores, logo_value, capture, quant)} :
           /\ image' = r.out.image
           /\ pix' = r.out.pix
           /\ threw' = r.out.threw
           /\ wroi' = r.out.roi
           /\ hist' = Append(hist, HistEntry("remove_watermark_gated", pix,
                                             image.channels, r.out.pos, r.out.amap))
           /\ det' = [ZeroResult EXCEPT !.confidence = r.conf]
           /\ fx' = [NoFx EXCEPT !.processed = ~r.skipped /\ ~r.out.threw]
    /\ op' = "remove_watermark_gated"
    /\ UNCHANGED << probe, force_size, region, logo_value, capture, quant, stages,
                    scores, request, proc >>
    /\ UNCHANGED ext

NextGated == RemoveWatermarkGated

SpecGated == InitGated /\ [][NextGated]_vars

---------------------------------------------------------------------------
(* Properties of the detector and of process_image (specification Spec)     *)

Dims(w, h) == image.cols = w /\ image.rows = h

Detected == op = "detect_watermark"

Processed == op = "process_image"

C2_AsStated ==
    (Detected /\ force_size = "None") =>
        /\ Dims(1024, 1024) => det.size = "Small"
        /\ Dims(1025, 1025) => det.size = "Large"
        /\ Dims(2000, 500) => det.size = "Small"
        /\ Dims(1025, 2000) => det.size = "Small"

\* C2, amended: classify(1024, 1024) = Small, classify(1025, 1025) = Large,
\* classify(2000, 500) = Small, and classify(1025, 2000) = Large (both dimensions
\* exceed 1024).
C2_Classify ==
    (Detected /\ force_size = "None") =>
        /\ Dims(1024, 1024) => det.size = "Small"
        /\ Dims(1025, 1025) => det.size = "Large"
        /\ Dims(2000, 500) => det.size = "Small"
        /\ Dims(1025, 2000) => det.size = "Large"

C2_Witness ==
    /\ Detected /\ force_size = "None"
    /\ Dims(1025, 2000)
    /\ det.size = "Large"

GatedRemoval ==
    /\ Processed /\ request.remove /\ request.use_detection
    /\ ~IsEmpty(image)

\* C3: in removal mode with detection enabled, process_image skips the image
\* (no removal, nothing written) exactly when the detector's confidence is below
\* the caller's detection_threshold, and processes it otherwise, whatever the
\* threshold in [0, 1].
C3_ThresholdGate ==
    GatedRemoval =>
        /\ proc.skipped <=> (det.confidence < request.detection_threshold)
        /\ proc.skipped => (~fx.processed /\ ~fx.written)
        /\ ~proc.skipped => fx.processed

C3_Witness ==
    /\ GatedRemoval
    /\ det.confidence < request.detection_threshold
    /\ fx.processed /\ fx.written /\ ~proc.skipped

\* C4: whenever stage 1 ran and its spatial score is below 0.25, the detector
\* returns with confidence exactly spatial_score * 0.5, gradient_score and
\* variance_score still zero (stages 2 and 3 not computed) and detected false.
C4_CircuitBreaker ==
    (Detected /\ 1 \in stages /\ 4 * scores.spatial < ScoreOne) =>
        /\ det.spatial_score = scores.spatial
        /\ 2 * det.confidence = ScoreOne * det.spatial_score
        /\ det.gradient_score = 0
        /\ det.variance_score = 0
        /\ ~det.detected
        /\ stages = {1}

C4_Witness ==
    /\ Detected
    /\ scores.spatial = 24 /\ scores.gradient = 100
    /\ det.confidence = 1200
    /\ det.gradient_score = 0
    /\ stages = {1}

\* C5: when stage 1 ran and the spatial score is at least 0.25, the returned
\* confidence is 0.50 * spatial + 0.30 * gradient + 0.20 * variance (variance 0
\* when stage 3 is skipped) clamped to [0, 1], and detected holds exactly when
\* that confidence is at least 0.35.
C5_Fusion ==
    (Detected /\ 1 \in stages /\ 4 * scores.spatial >= ScoreOne) =>
        LET v   == IF 3 \in stages THEN det.variance_score ELSE 0
            sum == (50 * det.spatial_score) + (30 * det.gradient_score) + (20 * v)
        IN  /\ det.spatial_score = scores.spatial
            /\ det.gradient_score = scores.gradient
            /\ 3 \notin stages => det.variance_score = 0
            /\ det.confidence = Clamp(sum, 0, ConfOne)
            /\ det.detected <=> (det.confidence >= 35 * ScoreOne)

C5_Witness ==
    /\ Detected
    /\ scores.spatial = 70 /\ scores.gradient = 0
    /\ stages = {1, 2, 3}
    /\ det.confidence = 35 * ScoreOne
    /\ det.detected

\* C6: every DetectionResult the detector returns, on every return path and for
\* every score in its range, has confidence within [0, 1].
C6_ConfidenceRange ==
    Detected => (0 <= det.confidence /\ det.confidence <= ConfOne)

C6_Witness ==
    /\ Detected
    /\ scores.spatial < 0
    /\ stages = {1}
    /\ det.confidence < 0

\* the intersection of rectangle r with the image is empty
MissesImage(r) ==
    \/ Max(0, r.x) >= Min(image.cols, r.x + r.width)
    \/ Max(0, r.y) >= Min(image.rows, r.y + r.height)

\* C7: detect_watermark never raises an error: for an empty image it returns
\* the zero-initialized result, and when the candidate box clamped to the image
\* has an empty intersection it returns confidence 0 and detected = false
\* without running any stage.
C7_DegenerateInput ==
    Detected =>
        /\ ~threw
        /\ IsEmpty(image) => (det = ZeroResult /\ stages = {})
        /\ (~IsEmpty(image) /\ MissesImage(det.region)) =>
             (det.confidence = 0 /\ ~det.detected /\ stages = {})

C7_Witness ==
    /\ Detected /\ ~threw
    /\ Dims(30, 100) /\ force_size = "None"
    /\ scores.spatial = ScoreOne
    /\ MissesImage(det.region)
    /\ det.confidence = 0 /\ ~det.detected /\ stages = {}

---------------------------------------------------------------------------
(* Properties of the blending operations (specification SpecBlend)          *)

Last == hist[Len(hist)]

\* the pixel before the last operation, as colour samples
BeforeBGR == ToBGR(Last.before, Last.channels)

\* the intersection of rectangle r with the image
Clip(r) ==
    IF MissesImage(r) THEN EmptyRect
    ELSE Rect(Max(0, r.x), Max(0, r.y),
              Min(image.cols, r.x + r.width) - Max(0, r.x),
              Min(image.rows, r.y + r.height) - Max(0, r.y))

\* the standard box of the size in use: forced, else Large when both dimensions
\* exceed 1024
StdBox ==
    LET large == IF force_size = "None"
                 THEN image.cols > 1024 /\ image.rows > 1024
                 ELSE force_size = "Large"
        side  == IF large THEN 96 ELSE 48
        m     == IF large THEN 64 ELSE 32
    IN  Rect(image.cols - m - side, image.rows - m - side, side, side)

TargetBox == IF request.entry = "custom" THEN region ELSE StdBox

\* the alpha level the last operation applied at the observed pixel
ProbeAlpha == AlphaAt(Last.amap, probe.x - Last.pos.x, probe.y - Last.pos.y)

RoundTrip ==
    /\ Len(hist) >= 2
    /\ hist[Len(hist) - 1].op = "add_watermark"
    /\ Last.op = "remove_watermark"
    /\ hist[Len(hist) - 1].channels = 3
    /\ ~IsEmpty(image)

\* ceil(1 / (1 - alpha)) for the alpha level a < AlphaDen
Tol(a) == (AlphaDen + (AlphaDen - a) - 1) \div (AlphaDen - a)

C10_CustomMatchesStandard ==
    (Len(hist) > 0 /\ Last.op = "remove_watermark_custom" /\ ~IsEmpty(image)) =>
        LET was == [image EXCEPT !.channels = Last.channels]
            std(size) == remove_watermark(was, probe, Last.before, size,
                                          logo_value, capture, quant)
            same(size) == /\ pix = std(size).pix
                          /\ image = std(size).image
                          /\ wroi = std(size).roi
                          /\ threw = std(size).threw
                          /\ Last.amap = get_alpha_map(size, capture)
        IN  /\ region = Rect(image.cols - 32 - 48, image.rows - 32 - 48, 48, 48)
                 => same("Small")
            /\ region = Rect(image.cols - 64 - 96, image.rows - 64 - 96, 96, 96)
                 => same("Large")

C10_Witness ==
    /\ Len(hist) = 1 /\ Last.op = "remove_watermark_custom"
    /\ region = Rect(image.cols - 32 - 48, image.rows - 32 - 48, 48, 48)
    /\ Last.amap.kind = "small"
    /\ InRect(probe, wroi)
    /\ ProbeAlpha \in 1..(AlphaDen - 1)
    /\ pix # BeforeBGR

\* C11: remove_watermark, add_watermark, remove_watermark_custom and
\* add_watermark_custom each fail with an error when the buffer is empty, before
\* any size selection, channel conversion or pixel write; an empty buffer is the
\* only input for which they fail.
C11_OnlyEmptyFails ==
    Len(hist) > 0 =>
        /\ threw <=> IsEmpty(image)
        /\ threw => /\ image.channels = Last.channels
                    /\ pix = Last.before
                    /\ wroi = EmptyRect
                    /\ Last.amap = NoMap

C11_Witness ==
    /\ Len(hist) > 0
    /\ Last.op = "remove_watermark_custom"
    /\ ~IsEmpty(image)
    /\ region.width = 0
    /\ threw

\* C16: whenever process_image skips an image because of the detection gate
\* it returns success = true, skipped = true and the detector's confidence, and
\* neither the removal nor the write of the output is performed; on every other
\* return path skipped is false.
C16_SkipResult ==
    Processed =>
        /\ proc.skipped =>
             /\ request.remove /\ request.use_detection /\ ~IsEmpty(image)
             /\ det.confidence < request.detection_threshold
             /\ proc.success
             /\ proc.confidence = det.confidence
             /\ ~fx.processed /\ ~fx.written
             /\ pix = Last.before /\ wroi = EmptyRect
        /\ (fx.processed \/ IsEmpty(image) \/ ~request.remove \/ ~request.use_detection)
             => ~proc.skipped
        /\ ~proc.success => ~proc.skipped

C16_Witness ==
    /\ Processed
    /\ proc.skipped /\ proc.success
    /\ det.confidence > 0
    /\ proc.confidence = det.confidence
    /\ request.write_success
    /\ ~fx.processed /\ ~fx.written

\* the box remove_watermark would modify on the current image and forced size
RemovalBox ==
    LET r == remove_watermark(image, probe, pix, force_size, logo_value, capture,
                              quant)
    IN  Rect(r.pos.x, r.pos.y, r.amap.cols, r.amap.rows)

\* C20: for every image size and every forced size, detect_watermark scores
\* the standard box of the size actually used (side 48, margins 32 for Small;
\* side 96, margins 64 for Large), which is the box remove_watermark modifies
\* for the same image and forced size, and reports it in DetectionResult.region.
C20_DetectBox ==
    (Detected /\ ~IsEmpty(image)) =>
        /\ det.region = StdBox
        /\ det.region = RemovalBox

C20_Witness ==
    /\ Detected
    /\ Dims(200, 150) /\ force_size = "Large"
    /\ det.size = "Large"
    /\ det.region = Rect(200 - 32 - 48, 150 - 32 - 48, 96, 96)
    /\ RemovalBox = Rect(200 - 64 - 96, 150 - 64 - 96, 96, 96)

---------------------------------------------------------------------------
(* Properties of guided_detect (specification SpecGuided)                   *)

GuidedDone == guided.pc = "done"

\* the search rectangle clamped to the image is smaller than 8 in width or in
\* height, or max(min_size, 16) exceeds min(max_size, its smaller side)
GuidedDegenerate ==
    LET c == Clip(guided.search_rect)
    IN  \/ c.width < 8 \/ c.height < 8
        \/ Max(guided.min_size, 16) > Min(guided.max_size, Min(c.width, c.height))

\* C12 as stated: guided_detect invoked with the cancellation flag already set
\* returns was_cancelled = true and found = false with
\* scales_searched < total_scales.
C12_AsStated ==
    (GuidedDone /\ guided.preset) =>
        /\ guided.result.was_cancelled
        /\ ~guided.result.found
        /\ guided.result.scales_searched < guided.result.total_scales

\* C12, amended: guided_detect invoked with the cancellation flag already set,
\* on input that is not degenerate (there is at least one scale to scan),
\* returns was_cancelled = true and found = false without matching any template,
\* with scales_searched < total_scales.
C12_PresetCancel ==
    (GuidedDone /\ guided.preset /\ ~GuidedDegenerate) =>
        /\ guided.result.was_cancelled
        /\ ~guided.result.found
        /\ guided.result.scales_searched < guided.result.total_scales
        /\ guided.matches = 0

C12_Witness ==
    /\ GuidedDone /\ guided.preset
    /\ guided.scene = "large" /\ Dims(120, 120)
    /\ guided.result.was_cancelled /\ ~guided.result.found
    /\ guided.result.scales_searched = 0
    /\ guided.result.total_scales > 1

\* C13: guided_detect returns not-found at once, matching no template
\* (scales_searched = 0), whenever the search rectangle clamped to the image is
\* smaller than 8 in width or height or max(min_size, 16) exceeds
\* min(max_size, smaller side of the clamped rectangle); it raises no error.
C13_DegenerateSearch ==
    (GuidedDone /\ GuidedDegenerate) =>
        /\ ~threw
        /\ ~guided.result.found
        /\ guided.result.scales_searched = 0
        /\ guided.result = NoGuidedResult
        /\ guided.matches = 0
        /\ guided.coarse_scales = << >>

C13_Witness ==
    /\ GuidedDone /\ ~threw
    /\ Dims(64, 64)
    /\ guided.search_rect = Rect(60, 0, 20, 20)
    /\ guided.scene = "small"
    /\ guided.result = NoGuidedResult

\* raw * min(1, sqrt(scale / 96)) as the key sign(a) * a * a * 96 of a score a
AdjKey(raw, scale) ==
    IF raw < 0 THEN -(raw * raw * (IF scale < 96 THEN scale ELSE 96))
    ELSE raw * raw * (IF scale < 96 THEN scale ELSE 96)

\* the coarse scales matched so far
CoarseMatched ==
    { guided.coarse_scales[k] : k \in 1..guided.result.scales_searched }

\* C14: every comparison and ranking of guided_detect uses
\* adjusted = raw_ncc * min(1, sqrt(scale / 96)), never the raw score: coarse
\* candidates pass the floor 0.08 on it and are the (at most five) best by it
\* in descending order, the fine phase keeps the best by it, and found is
\* decided on it; so a 96-pixel match with raw NCC 0.30 beats a 24-pixel match
\* with raw NCC 0.58.
C14_AdjustedRanking ==
    LET cands == guided.coarse_candidates
        adj(t) == AdjKey(Ncc(guided.scene, t), t)
        res   == guided.result
    IN  /\ Len(cands) <= 5
        /\ \A k \in 1..Len(cands) :
             /\ cands[k].adjusted_score = AdjKey(cands[k].raw_score, cands[k].scale)
             /\ cands[k].adjusted_score > AdjKey(8, 96)
             /\ cands[k].scale \in CoarseMatched
             /\ k < Len(cands) => cands[k].adjusted_score >= cands[k + 1].adjusted_score
        /\ \A t \in CoarseMatched :
             (adj(t) > AdjKey(8, 96) /\ \A k \in 1..Len(cands) : cands[k].scale # t)
               => (Len(cands) = 5 /\ adj(t) <= cands[5].adjusted_score)
        /\ GuidedDone =>
             /\ res.found <=> \E t \in guided.fine : adj(t) > AdjKey(8, 96)
             /\ res.found =>
                  /\ res.confidence = AdjKey(res.raw_ncc, res.detected_size)
                  /\ res.detected_size \in guided.fine
                  /\ \A t \in guided.fine : adj(t) <= res.confidence
             /\ (res.found /\ guided.scene = "large" /\ {24, 96} \subseteq guided.fine)
                  => (res.raw_ncc = 30 /\ res.detected_size >= 96)

C14_Witness ==
    /\ GuidedDone /\ guided.result.found
    /\ guided.scene = "large"
    /\ {24, 96} \subseteq guided.fine
    /\ Len(guided.coarse_candidates) = 5
    /\ guided.result.raw_ncc = 30
    /\ guided.result.detected_size = 96

---------------------------------------------------------------------------
(* Properties of the construction (specification SpecCtor)                  *)

Larger(cap, side) ==
    cap.cols >= side /\ cap.rows >= side /\ (cap.cols > side \/ cap.rows > side)

Smaller(cap, side) ==
    cap.cols <= side /\ cap.rows <= side /\ (cap.cols < side \/ cap.rows < side)

\* C19: init_alpha_maps resamples a capture whose size is not the expected one
\* to exactly that size, by area-averaging when the capture is larger than
\* expected and by linear interpolation when it is smaller, so that the small
\* map is 48 x 48 and the large map 96 x 96.
C19_ExactSize ==
    ctor.pc = "ready" =>
        /\ ctor.small.cols = 48 /\ ctor.small.rows = 48
        /\ ctor.large.cols = 96 /\ ctor.large.rows = 96
        /\ \A m \in { << ctor.bg_small, 48, ctor.small >>,
                      << ctor.bg_large, 96, ctor.large >> } :
             /\ Larger(m[1], m[2]) =>
                  m[3].value = Resample(ctor.seed,
                                        AreaTaps(m[1].cols, m[2], ctor.at.x),
                                        AreaTaps(m[1].rows, m[2], ctor.at.y))
             /\ Smaller(m[1], m[2]) =>
                  m[3].value = InterLinear(m[1], m[2], ctor.seed, ctor.at.x, ctor.at.y)

C19_Witness ==
    /\ ctor.pc = "ready"
    /\ ctor.bg_small = [cols |-> 24, rows |-> 24]
    /\ ctor.at = Point(1, 0)
    /\ ctor.small.cols = 48 /\ ctor.small.rows = 48 /\ ctor.small.resized
    /\ ctor.small.value = Sample(ctor.seed, 0, 0)
    /\ ctor.small.value # InterLinear(ctor.bg_small, 48, ctor.seed, 1, 0)

---------------------------------------------------------------------------
(* Properties of calls from several threads (specification SpecThreads)     *)

---------------------------------------------------------------------------
(* Properties of the command line (specification SpecCli)                   *)

\* the items the run is to process: every argument in simple mode, every
\* regular file with an image extension in batch mode
InputItems ==
    { k \in 1..Len(cli.items) : cli.items[k] \notin {"not_regular", "other_ext"} }

\* C17: in simple mode and in batch mode each input item is counted exactly
\* once, as a success or as a failure; a failure of one item never stops the
\* processing of the remaining items; and the exit code is 1 exactly when at
\* least one failure was counted.
C17_BatchCounting ==
    /\ \A k \in 1..Len(cli.counted) : cli.counted[k] <= 1
    /\ cli.pc = "exited" =>
         /\ \A k \in InputItems : cli.counted[k] = 1
         /\ cli.success + cli.fail = Cardinality(InputItems)
         /\ cli.exit_code = 1 <=> cli.fail > 0

C17_Witness ==
    /\ cli.pc = "exited" /\ cli.mode = "simple"
    /\ cli.items = << "bad", "error", "ok" >>
    /\ cli.counted = << 1, 0, 0 >>
    /\ cli.success = 0 /\ cli.fail = 1 /\ cli.exit_code = 1

---------------------------------------------------------------------------
(* Properties of detect_watermark_region (specification SpecRegion)         *)

\* C18: detect_watermark_region returns std::nullopt if nothing is found (no
\* watermark detected in the image) and a DetectionResult otherwise.
C18_NulloptWhenNotFound ==
    (finder.pc = "done" /\ ~threw) => (finder.has_value <=> det.detected)

C18_Witness ==
    /\ finder.pc = "done" /\ ~threw
    /\ ~IsEmpty(image)
    /\ finder.has_value
    /\ ~det.detected /\ det.confidence < kDetectionThreshold

---------------------------------------------------------------------------
(* Stage 3 and the rectangles of the detector (specification Spec)          *)

\* the image ROI of the detector: its box clamped to the image
DetRoi == Clip(det.region)

\* height of the reference strip: min(top y of the clamped region, standard
\* logo side length of the image's dimensions)
StripHeight ==
    Min(Max(0, det.region.y), get_watermark_config(image.cols, image.rows).logo_size)

\* C21 as stated: Stage 3 uses a reference strip of height h = min(top y of the
\* clamped region, standard logo side length) directly above the region and is
\* skipped, contributing 0, exactly when h is shorter than 8 pixels; a strip of
\* 8 or more pixels is evaluated.
C21_AsStated ==
    (Detected /\ 2 \in stages /\ ~threw) =>
        /\ (3 \notin stages) <=> (StripHeight < 8)
        /\ (3 \notin stages) => det.variance_score = 0

\* C21, amended: Stage 3 uses a reference strip of height h = min(top y of the
\* clamped region, standard logo side length) directly above the region and is
\* skipped, contributing 0, exactly when h is 8 pixels or shorter; a strip of 9
\* or more pixels is evaluated.
C21_StripRule ==
    (Detected /\ 2 \in stages /\ ~threw) =>
        /\ (3 \notin stages) <=> (StripHeight <= 8)
        /\ (3 \notin stages) => det.variance_score = 0
        /\ (3 \in stages) =>
             /\ InsideMat(Rect(DetRoi.x, DetRoi.y - StripHeight, DetRoi.width,
                               StripHeight), image.cols, image.rows)
             /\ det.variance_score = VarianceScore(scores.s_wm, scores.s_ref)

C21_Witness ==
    /\ Detected /\ ~threw
    /\ Dims(100, 88)
    /\ StripHeight = 8
    /\ stages = {1, 2}
    /\ det.variance_score = 0
    /\ scores.s_ref = 10 /\ scores.s_wm = 0

\* C22: for every non-empty image and every force_size option, each rectangle
\* detect_watermark extracts (the image ROI, the alpha-map crop, and the
\* reference strip when Stage 3 runs) is non-empty and lies inside the matrix
\* it indexes, and the alpha-map crop has the width and height of the image
\* ROI; so no extraction raises.
C22_RoisInside ==
    (Detected /\ ~IsEmpty(image)) =>
        /\ ~threw
        /\ stages # {} =>
             LET roi   == DetRoi
                 crop  == Rect(roi.x - det.region.x, roi.y - det.region.y,
                               roi.width, roi.height)
                 strip == Rect(roi.x, roi.y - StripHeight, roi.width, StripHeight)
             IN  /\ roi.width > 0 /\ roi.height > 0
                 /\ InsideMat(roi, image.cols, image.rows)
                 /\ InsideMat(crop, AlphaSide(det.size), AlphaSide(det.size))
                 /\ crop.width = roi.width /\ crop.height = roi.height
                 /\ 3 \in stages =>
                      /\ strip.height > 0 /\ strip.width > 0
                      /\ InsideMat(strip, image.cols, image.rows)

C22_Witness ==
    /\ Detected /\ ~threw
    /\ Dims(40, 45) /\ force_size = "Large"
    /\ stages = {1, 2}
    /\ DetRoi = Rect(0, 0, 40, 45)
    /\ det.region = Rect(-40, -35, 96, 96)

---------------------------------------------------------------------------
(* Properties of the gated remove_watermark (specification SpecGated)       *)

GatedSkip ==
    /\ op = "remove_watermark_gated" /\ ~threw
    /\ request.use_detection
    /\ det.confidence < request.detection_threshold

\* C23: when remove_watermark runs in its safe mode and the detector's
\* confidence is below the gate threshold, the call is a no-op: the caller's
\* buffer, its channel layout and every pixel value included, is exactly what
\* it was before the call.
C23_SkipIsNoOp ==
    GatedSkip =>
        /\ image.channels = Last.channels
        /\ pix = Last.before
        /\ wroi = EmptyRect

\* C23 (amended): a skipped call leaves the buffer in its 3-channel form and
\* blends nothing: a 3-channel buffer is exactly what it was, a 1- or
\* 4-channel buffer has been converted to 3 channels and is otherwise as it was.
C23_SkipOnlyNormalises ==
    GatedSkip =>
        /\ image.channels = 3
        /\ pix = ToBGR(Last.before, Last.channels)
        /\ Last.channels = 3 => pix = Last.before
        /\ wroi = EmptyRect
        /\ ~fx.processed

C23_Witness ==
    /\ GatedSkip
    /\ Dims(200, 150)
    /\ Last.channels = 4 /\ image.channels = 3
    /\ Len(Last.before) = 4 /\ Len(pix) = 3
    /\ ~fx.processed /\ wroi = EmptyRect

---------------------------------------------------------------------------
(* Properties of the two-phase search of guided_detect (SpecGuided)         *)

GuidedSearching ==
    \/ guided.pc \in {"coarse", "fine"}
    \/ guided.pc = "done" /\ guided.result.total_scales > 0

\* t is min_size + 8k for some k and at most max_size
Stepped(t) ==
    /\ guided.min_size <= t /\ t <= guided.max_size
    /\ \E k \in 0..(guided.max_size \div 8) : t = guided.min_size + (8 * k)

\* C24: the coarse scale list is min_size, min_size + 8, ... up to max_size
\* (min_size clamped to at least 16, max_size to the smaller side of the clamped
\* search rectangle), plus each of the standard sizes 48 and 96 that lies in
\* [min_size, max_size] and is more than 2 pixels from every stepped size; the
\* list is ascending and total_scales is its length.
C24_ScaleList ==
    GuidedSearching =>
        LET L == guided.coarse_scales
        IN  /\ guided.min_size >= 16
            /\ guided.max_size <= Min(guided.search.width, guided.search.height)
            /\ \A k \in 1..(Len(L) - 1) : L[k] < L[k + 1]
            /\ \A k \in 1..Len(L) : L[k] \in guided.min_size..guided.max_size
            /\ \A t \in guided.min_size..guided.max_size :
                 (\E k \in 1..Len(L) : L[k] = t) <=>
                    \/ Stepped(t)
                    \/ /\ t \in {48, 96}
                       /\ \A b \in guided.min_size..guided.max_size :
                            Stepped(b) => Abs(b - t) > 2
            /\ guided.result.total_scales = Len(L)

C24_Witness ==
    /\ guided.pc = "coarse"
    /\ guided.min_size = 20 /\ guided.max_size = 120
    /\ guided.coarse_scales =
         << 20, 28, 36, 44, 48, 52, 60, 68, 76, 84, 92, 96, 100, 108, 116 >>
    /\ guided.result.total_scales = 15

\* the coarse scales matched so far whose adjusted score exceeds the floor 0.08
CoarsePassing ==
    { t \in CoarseMatched :
        /\ t <= guided.search.width /\ t <= guided.search.height
        /\ AdjKey(Ncc(guided.scene, t), t) > AdjKey(8, 96) }

\* C25: after every coarse iteration the candidate list has at most 5 entries,
\* is sorted by non-increasing adjusted score, holds only entries whose
\* adjusted score exceeds 0.08, and consists of the highest-adjusted-score
\* scales among all the scales processed so far that exceed the floor.
C25_TopFive ==
    (guided.pc = "coarse") =>
        LET cands == guided.coarse_candidates
            kept  == { cands[k].scale : k \in 1..Len(cands) }
        IN  /\ Len(cands) = Min(5, Cardinality(CoarsePassing))
            /\ Cardinality(kept) = Len(cands)
            /\ kept \subseteq CoarsePassing
            /\ \A k \in 1..Len(cands) :
                 /\ cands[k].raw_score = Ncc(guided.scene, cands[k].scale)
                 /\ cands[k].adjusted_score =
                        AdjKey(cands[k].raw_score, cands[k].scale)
                 /\ cands[k].adjusted_score > AdjKey(8, 96)
                 /\ \A j \in k..Len(cands) :
                        cands[k].adjusted_score >= cands[j].adjusted_score
            /\ \A t \in CoarsePassing \ kept : \A k \in 1..Len(cands) :
                 AdjKey(Ncc(guided.scene, t), t) <= cands[k].adjusted_score

C25_Witness ==
    /\ guided.pc = "coarse"
    /\ guided.scene = "flat"
    /\ guided.result.scales_searched = 8
    /\ Len(guided.coarse_candidates) = 5
    /\ guided.coarse_candidates[1].scale = 72
    /\ guided.coarse_candidates[5].scale = 40
    /\ Cardinality(CoarsePassing) = 8

\* the adjusted score of the fine step at scale t
FineAdj(t) == AdjKey(Ncc(guided.scene, t), t)

\* the fine steps whose adjusted score no other fine step exceeds
FineTop == { t \in guided.fine : \A u \in guided.fine : FineAdj(u) <= FineAdj(t) }

\* C26: found is true exactly when the best adjusted score over all fine steps
\* of all coarse candidates exceeds 0.08; then confidence is that adjusted
\* score, raw_ncc its raw score and detected_size its scale; otherwise (no
\* coarse candidate, or a best of at most 0.08) found is false and the match
\* fields keep their default values.
C26_FoundRule ==
    (GuidedDone /\ ~threw) =>
        LET res == guided.result
        IN  /\ res.found <=> \E t \in guided.fine : FineAdj(t) > AdjKey(8, 96)
            /\ res.found =>
                 \E t \in FineTop :
                    /\ res.confidence = FineAdj(t)
                    /\ res.raw_ncc = Ncc(guided.scene, t)
                    /\ res.detected_size = t
            /\ ~res.found =>
                 /\ res.confidence = NoGuidedResult.confidence
                 /\ res.raw_ncc = NoGuidedResult.raw_ncc
                 /\ res.match_rect = NoGuidedResult.match_rect
                 /\ res.detected_size = NoGuidedResult.detected_size
            /\ guided.coarse_candidates = << >> => (guided.fine = {} /\ ~res.found)

C26_Witness ==
    /\ GuidedDone /\ ~threw
    /\ guided.scene = "small"
    /\ guided.result.found
    /\ guided.result.detected_size = 48
    /\ guided.result.raw_ncc = 90
    /\ guided.result.confidence = AdjKey(90, 48)
    /\ Cardinality(guided.fine) > 11
    /\ \E t \in guided.fine : t > 48

\* a step of the coarse loop that reads the flag
CoarseRead == guided.pc = "coarse" /\ guided'.pc = "coarse" /\ guided'.i # guided.i

\* a step of the fine loop that reads the flag
FineRead == guided.pc = "fine" /\ guided'.pc = "fine" /\ guided'.i # guided.i

\* C27: guided_detect reads the cancellation flag at the start of every coarse
\* iteration, before any matching for that scale; once the flag is read as set
\* no further template is matched in the call and the result has
\* was_cancelled = true; scales_searched is the number of coarse scales
\* processed before the flag was observed, so scales_searched <= total_scales
\* always, with equality exactly when the coarse loop ran to completion.
C27_CancelPolling ==
    /\ [](guided.result.scales_searched <= guided.result.total_scales)
    /\ [][(CoarseRead /\ guided.cancel_flag = "set") =>
            /\ guided'.result.was_cancelled
            /\ guided'.matches = guided.matches
            /\ guided'.result.scales_searched = guided.i - 1
            /\ guided'.result.scales_searched < guided'.result.total_scales]_vars
    /\ [][(CoarseRead /\ guided.cancel_flag # "set") =>
            /\ guided'.result.was_cancelled = guided.result.was_cancelled
            /\ guided'.matches = guided.matches + 1
            /\ guided'.result.scales_searched = guided.i]_vars
    /\ [][(FineRead /\ guided.cancel_flag = "set") =>
            /\ guided'.result.was_cancelled
            /\ guided'.matches = guided.matches]_vars
    /\ [][guided.result.was_cancelled =>
            /\ guided'.result.was_cancelled
            /\ guided'.matches = guided.matches
            /\ guided'.result.scales_searched = guided.result.scales_searched]_vars
    /\ [][(guided.pc = "coarse" /\ guided'.pc # "coarse") =>
            /\ guided'.result = guided.result
            /\ (guided.result.scales_searched = guided.result.total_scales)
                 <=> ~guided.result.was_cancelled]_vars
    /\ [][(guided.pc \in {"fine", "done"}) =>
            guided'.result.scales_searched = guided.result.scales_searched]_vars

C27_Witness ==
    /\ GuidedDone /\ ~threw
    /\ ~guided.preset /\ guided.cancel_flag = "set"
    /\ guided.result.was_cancelled
    /\ guided.result.scales_searched = 3
    /\ guided.matches = 3
    /\ guided.result.total_scales = 15
    /\ ~guided.result.found

\* C28: if guided_detect is not cancelled and the coarse phase yields at least
\* one candidate, the result is found and its confidence is at least the
\* highest adjusted score seen in the coarse phase: the fine phase re-evaluates
\* every coarse candidate's own scale and never returns a worse match.
C28_FineNotWorse ==
    (GuidedDone /\ ~threw /\ ~guided.result.was_cancelled
       /\ guided.coarse_candidates # << >>) =>
        /\ guided.result.found
        /\ guided.result.confidence >= guided.coarse_candidates[1].adjusted_score
        /\ \A k \in 1..Len(guided.coarse_candidates) :
             guided.coarse_candidates[k].scale \in guided.fine

C28_Witness ==
    /\ GuidedDone /\ ~threw /\ ~guided.result.was_cancelled
    /\ guided.scene = "spike" /\ guided.min_size = 45
    /\ Len(guided.coarse_candidates) = 1
    /\ guided.coarse_candidates[1].scale = 48
    /\ guided.coarse_candidates[1].adjusted_score = AdjKey(90, 48)
    /\ guided.fine = {45, 47, 49, 51, 53, 55, 57}
    /\ ~guided.result.found
    /\ guided.result.confidence = 0

\* C29: whenever guided_detect returns found, match_rect is a square of side
\* detected_size with max(min_size, 16) <= detected_size <= min(max_size, width
\* and height of the clamped search rectangle), and match_rect lies inside the
\* clamped search rectangle, hence inside the image.
C29_MatchGeometry ==
    (GuidedDone /\ guided.result.found) =>
        LET res == guided.result
            c   == Clip(guided.search_rect)
        IN  /\ guided.search = c
            /\ res.match_rect.width = res.detected_size
            /\ res.match_rect.height = res.detected_size
            /\ guided.min_size >= 16
            /\ guided.min_size <= res.detected_size
            /\ res.detected_size <= guided.max_size
            /\ res.detected_size <= c.width /\ res.detected_size <= c.height
            /\ c.x <= res.match_rect.x /\ c.y <= res.match_rect.y
            /\ res.match_rect.x + res.match_rect.width <= c.x + c.width
            /\ res.match_rect.y + res.match_rect.height <= c.y + c.height
            /\ InsideMat(res.match_rect, image.cols, image.rows)

C29_Witness ==
    /\ GuidedDone /\ guided.result.found
    /\ Dims(64, 64) /\ guided.search_rect = Rect(-10, -10, 50, 50)
    /\ guided.search = Rect(0, 0, 40, 40)
    /\ guided.scene = "small"
    /\ guided.min_size = 16 /\ guided.max_size = 40
    /\ guided.result.detected_size = 40
    /\ guided.result.match_rect = Rect(0, 0, 40, 40)

---------------------------------------------------------------------------
(* Properties of the detection singleton under racing calls (SpecRace)      *)

\* C30: across any number of calls of detect_watermark_region, first calls
\* racing on several threads included, the process-wide detection engine is
\* constructed at most once and every call runs detection on a fully
\* constructed engine.
C30_ConstructedOnce ==
    /\ racers.built <= 1
    /\ \A k \in DOMAIN racers.t :
         /\ ~racers.t[k].dangling
         /\ racers.t[k].pc = "detect" => racers.t[k].e \in racers.live

C30_Witness ==
    /\ racers.built = 2
    /\ racers.live = {2} /\ racers.g_detection_engine = 2
    /\ racers.t[1].calls = 1 /\ racers.t[2].calls = 1
    /\ racers.t[1].pc = "idle" /\ racers.t[1].e = 1 /\ racers.t[1].dangling
    /\ racers.t[2].pc = "idle" /\ racers.t[2].e = 2 /\ ~racers.t[2].dangling

=============================================================================
